---- MODULE Spec2Model ----
(***************************************************************************)
(* Backtesting and decision engine of nba_fanduel_sim: the bankroll        *)
(* ledger (simulator/bankroll.py), the odds conversions                    *)
(* (odds/fanduel_odds_utils.py) and the backtest loop                      *)
(* (simulator/backtester.py) with the Elo rating model                     *)
(* (models/elo_model.py).                                                  *)
(*                                                                         *)
(* Python floats are modelled by exact rationals [n |-> .., d |-> ..] in   *)
(* lowest terms with d > 0; every arithmetic step of the code is taken in  *)
(* the same order on rationals.  Optional[...] values are <<>> (None) or   *)
(* <<x>>.  A dict is a function whose DOMAIN is the set of keys present.   *)
(***************************************************************************)
EXTENDS Integers, Sequences, FiniteSets, TLC

\* ------------------------------------------------------------------ bounds
MaxBets == 2
MaxDaily == 2
MaxGames == 4
MaxTwiceGames == 3
MaxSimulations == 2
MaxUpdates == 2
MaxSpreadWagers == 2

\* ------------------------------------------------------- exact arithmetic
Abs(x) == IF x < 0 THEN -x ELSE x

RECURSIVE GCD(_, _)
GCD(a, b) == IF b = 0 THEN a ELSE GCD(b, a % b)

Rat(n, d) ==
    LET g == GCD(Abs(n), Abs(d))
        s == IF d < 0 THEN -1 ELSE 1
    IN  [n |-> s * (n \div g), d |-> s * (d \div g)]

R(i) == [n |-> i, d |-> 1]
RNeg(a) == [n |-> -a.n, d |-> a.d]
\* Sums, products and comparisons go through the least common denominator
\* and cancel before multiplying, so that intermediate values stay small.
RAdd(a, b) ==
    LET g == GCD(a.d, b.d)
        l == (a.d \div g) * b.d
    IN  Rat(a.n * (l \div a.d) + b.n * (l \div b.d), l)
RSub(a, b) == RAdd(a, RNeg(b))
RMul(a, b) ==
    LET g1 == GCD(Abs(a.n), b.d)
        g2 == GCD(Abs(b.n), a.d)
    IN  Rat((a.n \div g1) * (b.n \div g2), (a.d \div g2) * (b.d \div g1))
RDiv(a, b) == RMul(a, Rat(b.d, b.n))
RLt(a, b) == LET g == GCD(a.d, b.d) IN a.n * (b.d \div g) < b.n * (a.d \div g)
RLe(a, b) == LET g == GCD(a.d, b.d) IN a.n * (b.d \div g) <= b.n * (a.d \div g)
RGt(a, b) == RLt(b, a)
RGe(a, b) == RLe(b, a)
RMax(a, b) == IF RGe(a, b) THEN a ELSE b
RMin(a, b) == IF RLe(a, b) THEN a ELSE b
RFloor(a) == a.n \div a.d

None == <<>>
Some(x) == <<x>>
Get(dict, key, default) == IF key \in DOMAIN dict THEN dict[key] ELSE default
Put(dict, key, val) == [k \in DOMAIN dict \cup {key} |-> IF k = key THEN val ELSE dict[k]]
EmptyDict == [k \in {} |-> 0]
\* A game is a dict: a key the caller left out is absent from its DOMAIN, and
\* game['key'] on it raises KeyError.
HasKey(dict, key) == key \in DOMAIN dict

\* ------------------------------------------- odds/fanduel_odds_utils.py
american_to_decimal(american_odds) ==
    IF american_odds < 0
    THEN RAdd(R(1), Rat(100, Abs(american_odds)))
    ELSE RAdd(R(1), Rat(american_odds, 100))

calculate_payout(stake, american_odds) ==
    RMul(stake, american_to_decimal(american_odds))

calculate_profit(stake, american_odds) ==
    RSub(calculate_payout(stake, american_odds), stake)

american_to_probability(american_odds) ==
    IF american_odds < 0
    THEN Rat(Abs(american_odds), Abs(american_odds) + 100)
    ELSE Rat(100, american_odds + 100)

validate_fanduel_odds(american_odds) ==
    -10000 <= american_odds /\ american_odds <= 10000 /\ american_odds # 0

get_market_vig(prob_a, prob_b) == RSub(RAdd(prob_a, prob_b), R(1))

\* ------------------------------------------------- odds/vig_removal.py
remove_vig_proportional(prob_a, prob_b) ==
    LET total == RAdd(prob_a, prob_b)
    IN  IF total = R(0) THEN <<Rat(1, 2), Rat(1, 2)>>
        ELSE <<RDiv(prob_a, total), RDiv(prob_b, total)>>

\* "total = fair_a + fair_b; return fair_a / total, fair_b / total", the
\* closing lines of the additive and of the Shin policy.
normalize(fair_a, fair_b) ==
    <<RDiv(fair_a, RAdd(fair_a, fair_b)), RDiv(fair_b, RAdd(fair_a, fair_b))>>

\* max(0.01, min(0.99, prob - vig / 2))
additive_fair(prob, vig) ==
    RMax(Rat(1, 100), RMin(Rat(99, 100), RSub(prob, RDiv(vig, R(2)))))

remove_vig_additive(prob_a, prob_b) ==
    normalize(additive_fair(prob_a, get_market_vig(prob_a, prob_b)),
              additive_fair(prob_b, get_market_vig(prob_a, prob_b)))

\* The favourite (the strictly larger probability) has 45% of the vig taken
\* off, the other side 55%.
remove_vig_shin(prob_a, prob_b) ==
    normalize(RSub(prob_a, RMul(get_market_vig(prob_a, prob_b),
                                IF RGt(prob_a, prob_b) THEN Rat(45, 100) ELSE Rat(55, 100))),
              RSub(prob_b, RMul(get_market_vig(prob_a, prob_b),
                                IF RGt(prob_a, prob_b) THEN Rat(55, 100) ELSE Rat(45, 100))))

\* The largest integer whose square is at most x, sought between lo and hi.
RECURSIVE ISqrtBetween(_, _, _)
ISqrtBetween(x, lo, hi) ==
    IF lo >= hi THEN lo
    ELSE IF ((lo + hi + 1) \div 2) * ((lo + hi + 1) \div 2) <= x
         THEN ISqrtBetween(x, (lo + hi + 1) \div 2, hi)
         ELSE ISqrtBetween(x, lo, (lo + hi + 1) \div 2 - 1)

\* prob ** 1.5 = prob * sqrt(prob), the square root of n/d being
\* sqrt(n * d) / d, taken to the hundredth of 1/d below it.
pow_three_halves(prob) ==
    RMul(prob, Rat(ISqrtBetween(prob.n * prob.d * 10000, 0, 46340), prob.d * 100))

remove_vig_power(prob_a, prob_b) ==
    IF RAdd(pow_three_halves(prob_a), pow_three_halves(prob_b)) = R(0)
    THEN <<Rat(1, 2), Rat(1, 2)>>
    ELSE normalize(pow_three_halves(prob_a), pow_three_halves(prob_b))

\* remove_vig: the dispatch on the method name; ValueError (no pair) for a
\* name it does not know.
remove_vig(prob_a, prob_b, method) ==
    CASE method = "proportional" -> remove_vig_proportional(prob_a, prob_b)
      [] method = "additive" -> remove_vig_additive(prob_a, prob_b)
      [] method = "power" -> remove_vig_power(prob_a, prob_b)
      [] method = "shin" -> remove_vig_shin(prob_a, prob_b)
      [] OTHER -> <<>>

get_vig_adjusted_edge(model_prob, american_odds, opponent_odds, method) ==
    RSub(model_prob,
         IF american_odds < opponent_odds
         THEN remove_vig(american_to_probability(american_odds),
                         american_to_probability(opponent_odds), method)[1]
         ELSE remove_vig(american_to_probability(opponent_odds),
                         american_to_probability(american_odds), method)[2])

\* ------------------------------------------------ strategy/ev_strategy.py
calculate_ev(model_prob, american_odds, stake) ==
    LET profit == calculate_profit(stake, american_odds)
    IN  RSub(RMul(model_prob, profit), RMul(RSub(R(1), model_prob), stake))

calculate_ev_percentage(model_prob, american_odds) ==
    RDiv(calculate_ev(model_prob, american_odds, R(100)), R(100))

BetOpportunity(game_id, bet_type, team, odds, model_prob, fair_prob, implied_prob, ev, edge) ==
    [game_id |-> game_id, bet_type |-> bet_type, team |-> team, odds |-> odds,
     model_prob |-> model_prob, fair_prob |-> fair_prob,
     implied_prob |-> implied_prob, ev |-> ev,
     ev_percent |-> RMul(ev, R(100)), edge |-> edge]

\* One side of a market, as find_moneyline_opportunities and
\* find_spread_opportunities treat each of their two sides: the opportunity
\* is kept when both its EV and its edge reach the thresholds; fair_prob is
\* model_prob - edge.
side_opportunities_ev_only(game_id, bet_type, team, odds, model_prob, edge, ev, min_ev, min_edge) ==
    IF RGe(ev, min_ev)
    THEN <<BetOpportunity(game_id, bet_type, team, odds, model_prob,
                          RSub(model_prob, edge), american_to_probability(odds),
                          ev, edge)>>
    ELSE <<>>

side_opportunities(game_id, bet_type, team, odds, model_prob, edge, ev, min_ev, min_edge) ==
    IF RGe(ev, min_ev) /\ RGe(edge, min_edge)
    THEN <<BetOpportunity(game_id, bet_type, team, odds, model_prob,
                          RSub(model_prob, edge), american_to_probability(odds),
                          ev, edge)>>
    ELSE <<>>

find_moneyline_opportunities(game, home_prob, away_prob, min_ev, min_edge, vig_method) ==
    IF ~validate_fanduel_odds(game.moneyline_home) THEN <<>>
    ELSE IF ~validate_fanduel_odds(game.moneyline_away) THEN <<>>
    ELSE
        side_opportunities(game.game_id, "moneyline_home", game.home_team,
            game.moneyline_home, home_prob,
            get_vig_adjusted_edge(home_prob, game.moneyline_home,
                                  game.moneyline_away, vig_method),
            calculate_ev_percentage(home_prob, game.moneyline_home),
            min_ev, min_edge)
        \o
        side_opportunities(game.game_id, "moneyline_away", game.away_team,
            game.moneyline_away, away_prob,
            get_vig_adjusted_edge(away_prob, game.moneyline_away,
                                  game.moneyline_home, vig_method),
            calculate_ev_percentage(away_prob, game.moneyline_away),
            min_ev, min_edge)

\* list.sort(key=ev, reverse=True): a stable sort, equal keys keep their
\* order.  Insertion into a list sorted by descending ev, after equal keys.
RECURSIVE InsertByEv(_, _)
InsertByEv(sorted, opp) ==
    IF sorted = <<>> THEN <<opp>>
    ELSE IF RGt(opp.ev, Head(sorted).ev) THEN <<opp>> \o sorted
    ELSE <<Head(sorted)>> \o InsertByEv(Tail(sorted), opp)

RECURSIVE SortByEvDescending(_)
SortByEvDescending(opps) ==
    IF opps = <<>> THEN <<>>
    ELSE InsertByEv(SortByEvDescending(SubSeq(opps, 1, Len(opps) - 1)),
                    opps[Len(opps)])

find_spread_opportunities(game, home_cover_prob, away_cover_prob, min_ev, min_edge, vig_method) ==
    IF ~validate_fanduel_odds(game.spread_odds_home) THEN <<>>
    ELSE IF ~validate_fanduel_odds(game.spread_odds_away) THEN <<>>
    ELSE
        side_opportunities(game.game_id, "spread_home",
            <<game.home_team, game.spread>>,
            game.spread_odds_home, home_cover_prob,
            get_vig_adjusted_edge(home_cover_prob, game.spread_odds_home,
                                  game.spread_odds_away, vig_method),
            calculate_ev_percentage(home_cover_prob, game.spread_odds_home),
            min_ev, min_edge)
        \o
        side_opportunities(game.game_id, "spread_away",
            <<game.away_team, -game.spread>>,
            game.spread_odds_away, away_cover_prob,
            get_vig_adjusted_edge(away_cover_prob, game.spread_odds_away,
                                  game.spread_odds_home, vig_method),
            calculate_ev_percentage(away_cover_prob, game.spread_odds_away),
            min_ev, min_edge)

find_ev_opportunities_spread_always(game, home_win_prob, home_cover_prob, min_ev, min_edge, vig_method) ==
    SortByEvDescending(
        find_moneyline_opportunities(game, home_win_prob,
            RSub(R(1), home_win_prob), min_ev, min_edge, vig_method)
        \o
        find_spread_opportunities(game,
            IF home_cover_prob # None THEN home_cover_prob[1] ELSE home_win_prob,
            RSub(R(1), IF home_cover_prob # None THEN home_cover_prob[1] ELSE home_win_prob),
            min_ev, min_edge, vig_method))

\* find_ev_opportunities with bet_types left at its default None; a cover
\* probability is None or <<p>>.
find_ev_opportunities(game, home_win_prob, home_cover_prob, min_ev, min_edge, vig_method) ==
    SortByEvDescending(
        find_moneyline_opportunities(game, home_win_prob,
            RSub(R(1), home_win_prob), min_ev, min_edge, vig_method)
        \o
        (IF home_cover_prob # None
         THEN find_spread_opportunities(game, home_cover_prob[1],
                  RSub(R(1), home_cover_prob[1]), min_ev, min_edge, vig_method)
         ELSE <<>>))

\* ------------------------------------------------- strategy/bet_sizing.py
calculate_kelly_stake(probability, american_odds, bankroll_amount) ==
    LET decimal_odds == american_to_decimal(american_odds)
        b == RSub(decimal_odds, R(1))
        p == probability
        q == RSub(R(1), probability)
        kelly_fraction == RMax(R(0), RDiv(RSub(RMul(b, p), q), b))
    IN  RMul(bankroll_amount, kelly_fraction)

calculate_fractional_kelly(probability, american_odds, bankroll_amount, kelly_fraction) ==
    RMul(calculate_kelly_stake(probability, american_odds, bankroll_amount),
         kelly_fraction)

calculate_flat_stake(bankroll_amount, flat_percentage) ==
    RMul(bankroll_amount, flat_percentage)

\* The safety constraints calculate_stake puts on the stake its method gave:
\* the cap at the share of the bankroll, the optional cap in dollars, and
\* 0.0 for a stake under the minimum.
apply_min_bet_keeps_small(stake, min_bet_amount) == stake

apply_min_bet(stake, min_bet_amount) ==
    IF RLt(stake, min_bet_amount) THEN R(0) ELSE stake

apply_max_bet_amount(stake, max_bet_amount) ==
    IF max_bet_amount # None THEN RMin(stake, max_bet_amount[1]) ELSE stake

\* calculate_stake returns <<stake>>, or <<>> when it raises ValueError for
\* an unknown method.  max_bet_amount is None or <<amount>>.
calculate_stake(probability, american_odds, bankroll_amount, method, kelly_fraction, flat_percentage, max_bet_percentage, min_bet_amount, max_bet_amount) ==
    IF method \notin {"flat", "kelly", "fractional_kelly"} THEN <<>>
    ELSE <<apply_min_bet(
             apply_max_bet_amount(
               RMin(CASE method = "flat" ->
                         calculate_flat_stake(bankroll_amount, flat_percentage)
                      [] method = "kelly" ->
                         calculate_kelly_stake(probability, american_odds, bankroll_amount)
                      [] method = "fractional_kelly" ->
                         calculate_fractional_kelly(probability, american_odds,
                                                    bankroll_amount, kelly_fraction),
                    RMul(bankroll_amount, max_bet_percentage)),
               max_bet_amount),
             min_bet_amount)>>

\* --------------------------------------------------- models/elo_model.py
\* 1 / (1 + 10 ** (-elo_diff / 400)), tabulated in percent at every 10
\* rating points from -600 to +800 and read at the grid point at or below
\* elo_diff (clamped to the table's ends).
LogisticPercent ==
    <<3, 3, 3, 4, 4, 4, 4, 5, 5, 5, 5, 6, 6, 6, 7, 7, 7, 8, 8, 9,
      9, 10, 10, 11, 11, 12, 12, 13, 14, 14, 15, 16, 17, 17, 18, 19, 20, 21, 22, 23,
      24, 25, 26, 27, 28, 30, 31, 32, 33, 35, 36, 37, 39, 40, 41, 43, 44, 46, 47, 49,
      50, 51, 53, 54, 56, 57, 59, 60, 61, 63, 64, 65, 67, 68, 69, 70, 72, 73, 74, 75,
      76, 77, 78, 79, 80, 81, 82, 83, 83, 84, 85, 86, 86, 87, 88, 88, 89, 89, 90, 90,
      91, 91, 92, 92, 93, 93, 93, 94, 94, 94, 95, 95, 95, 95, 96, 96, 96, 96, 97, 97,
      97, 97, 97, 97, 98, 98, 98, 98, 98, 98, 98, 98, 98, 99, 99, 99, 99, 99, 99, 99,
      99>>

EloExpected(elo_diff) ==
    LET k == RFloor(RDiv(elo_diff, R(10))) + 61
        i == IF k < 1 THEN 1 ELSE IF k > Len(LogisticPercent) THEN Len(LogisticPercent) ELSE k
    IN  Rat(LogisticPercent[i], 100)

\* np.log(x) for x = 2..31, in hundredths.
LogHundredths ==
    <<69, 110, 139, 161, 179, 195, 208, 220, 230, 240, 248, 256, 264, 271, 277,
      283, 289, 294, 300, 304, 309, 314, 318, 322, 326, 330, 333, 337, 340, 343>>

NpLog(x) == Rat(LogHundredths[x - 1], 100)

EloModel_init(k_factor, home_advantage, initial_rating, mean_reversion) ==
    [type |-> "Elo", is_fitted |-> FALSE,
     k_factor |-> k_factor, home_advantage |-> home_advantage,
     initial_rating |-> initial_rating, mean_reversion |-> mean_reversion,
     ratings |-> EmptyDict, rating_history |-> <<>>, current_season |-> None]

ensure_team_rating(M, team) ==
    IF team \notin DOMAIN M.ratings
    THEN [M EXCEPT !.ratings = Put(@, team, M.initial_rating)]
    ELSE M

get_mov_multiplier(margin, elo_diff) ==
    LET mov_mult == NpLog((IF Abs(margin) > 1 THEN Abs(margin) ELSE 1) + 1)
    IN  IF (margin > 0 /\ RGt(elo_diff, R(0))) \/ (margin < 0 /\ RLt(elo_diff, R(0)))
        THEN RMul(mov_mult, Rat(8, 10))
        ELSE mov_mult

apply_season_reversion(M) ==
    [M EXCEPT !.ratings =
        [team \in DOMAIN M.ratings |->
            RAdd(RMul(M.mean_reversion, M.initial_rating),
                 RMul(RSub(R(1), M.mean_reversion), M.ratings[team]))]]

EloModel_predict_proba(M, game_row) ==
    IF ~M.is_fitted
    THEN [model |-> M, raised |-> "ValueError", value |-> None]
    ELSE LET M2 == ensure_team_rating(ensure_team_rating(M, game_row.home_team),
                                      game_row.away_team)
             home_elo == M2.ratings[game_row.home_team]
             away_elo == M2.ratings[game_row.away_team]
             elo_diff == RAdd(RSub(home_elo, away_elo), M2.home_advantage)
         IN  [model |-> M2, raised |-> "", value |-> Some(EloExpected(elo_diff))]

EloModel_update_home_only(M, game_row) ==
    LET home_team == game_row.home_team
        away_team == game_row.away_team
        home_elo == Get(M.ratings, home_team, M.initial_rating)
        away_elo == Get(M.ratings, away_team, M.initial_rating)
        elo_diff == RAdd(RSub(home_elo, away_elo), M.home_advantage)
        expected_home_win == EloExpected(elo_diff)
        actual_home_win == IF game_row.home_won THEN R(1) ELSE R(0)
        mov_multiplier == get_mov_multiplier(game_row.margin, elo_diff)
        rating_change == RMul(RMul(M.k_factor, mov_multiplier),
                              RSub(actual_home_win, expected_home_win))
        ratings1 == Put(M.ratings, home_team, RAdd(home_elo, rating_change))
        ratings2 == Put(ratings1, away_team, away_elo)
    IN  [M EXCEPT !.ratings = ratings2,
                  !.rating_history = Append(@,
                      [date |-> game_row.date, game_id |-> game_row.game_id,
                       home_team |-> home_team, away_team |-> away_team,
                       home_elo_before |-> home_elo, away_elo_before |-> away_elo,
                       home_elo_after |-> ratings2[home_team],
                       away_elo_after |-> ratings2[away_team],
                       expected_home_win |-> expected_home_win,
                       actual_home_win |-> actual_home_win,
                       margin |-> game_row.margin])]

EloModel_update(M, game_row) ==
    LET home_team == game_row.home_team
        away_team == game_row.away_team
        home_elo == Get(M.ratings, home_team, M.initial_rating)
        away_elo == Get(M.ratings, away_team, M.initial_rating)
        elo_diff == RAdd(RSub(home_elo, away_elo), M.home_advantage)
        expected_home_win == EloExpected(elo_diff)
        actual_home_win == IF game_row.home_won THEN R(1) ELSE R(0)
        mov_multiplier == get_mov_multiplier(game_row.margin, elo_diff)
        rating_change == RMul(RMul(M.k_factor, mov_multiplier),
                              RSub(actual_home_win, expected_home_win))
        ratings1 == Put(M.ratings, home_team, RAdd(home_elo, rating_change))
        ratings2 == Put(ratings1, away_team, RSub(away_elo, rating_change))
    IN  [M EXCEPT !.ratings = ratings2,
                  !.rating_history = Append(@,
                      [date |-> game_row.date, game_id |-> game_row.game_id,
                       home_team |-> home_team, away_team |-> away_team,
                       home_elo_before |-> home_elo, away_elo_before |-> away_elo,
                       home_elo_after |-> ratings2[home_team],
                       away_elo_after |-> ratings2[away_team],
                       expected_home_win |-> expected_home_win,
                       actual_home_win |-> actual_home_win,
                       margin |-> game_row.margin])]

RECURSIVE EloModel_fit_loop(_, _)
EloModel_fit_loop(M, data) ==
    IF data = <<>> THEN M
    ELSE LET game == Head(data)
             M1 == IF M.current_season # None /\ game.season # M.current_season[1]
                   THEN apply_season_reversion(M) ELSE M
             M2 == [M1 EXCEPT !.current_season = Some(game.season)]
             M3 == ensure_team_rating(ensure_team_rating(M2, game.home_team),
                                      game.away_team)
         IN  IF ~HasKey(game, "home_won") THEN M3
             ELSE EloModel_fit_loop(EloModel_update(M3, game), Tail(data))

\* fit: update raises KeyError at the first game without an outcome, after
\* the games before it have been applied; is_fitted is then left as it was.
EloModel_fit(M, data) ==
    IF data = <<>>
    THEN [model |-> M, raised |-> "ValueError"]
    ELSE IF \E k \in DOMAIN data : ~HasKey(data[k], "home_won")
    THEN [model |-> EloModel_fit_loop([M EXCEPT !.ratings = EmptyDict,
                                                !.rating_history = <<>>,
                                                !.current_season = None], data),
          raised |-> "KeyError"]
    ELSE [model |-> [EloModel_fit_loop([M EXCEPT !.ratings = EmptyDict,
                                                 !.rating_history = <<>>,
                                                 !.current_season = None], data)
                        EXCEPT !.is_fitted = TRUE],
          raised |-> ""]

\* ---------------------------------------------- models/logistic_model.py
LogisticModel_init(retrain_frequency, min_training_games) ==
    [type |-> "Logistic", is_fitted |-> FALSE,
     retrain_frequency |-> retrain_frequency,
     min_training_games |-> min_training_games,
     model |-> None, training_data |-> <<>>, games_since_retrain |-> 0]

\* _extract_features: <<features>>, or <<>> when the subtraction of the rest
\* days raises TypeError because one of them is None.  A row of the plain
\* LogisticModel carries no home_elo/away_elo, so elo_diff is 0.
extract_features(game_row) ==
    IF game_row.home_rest_days = None \/ game_row.away_rest_days = None
    THEN <<>>
    ELSE << <<0, game_row.home_rest_days[1] - game_row.away_rest_days[1], 1,
              IF game_row.is_playoff THEN 1 ELSE 0>> >>

\* _train_model.  The fitted StandardScaler + LogisticRegression pair is a
\* function of the training rows; it is kept as the rows it was fitted on.
\* sklearn raises ValueError when the labels hold one class only.  The loop
\* over the rows raises at the first row it cannot read: TypeError from
\* _extract_features, else KeyError from game['home_won'].
UnreadableRows(rows) ==
    {k \in DOMAIN rows : extract_features(rows[k]) = <<>> \/ ~HasKey(rows[k], "home_won")}

FirstUnreadableRow(rows) ==
    CHOOSE k \in UnreadableRows(rows) : \A l \in UnreadableRows(rows) : k <= l

train_model(M) ==
    IF UnreadableRows(M.training_data) # {}
    THEN [model |-> M,
          raised |-> IF extract_features(M.training_data[FirstUnreadableRow(M.training_data)]) = <<>>
                     THEN "TypeError" ELSE "KeyError"]
    ELSE IF \A k, l \in DOMAIN M.training_data :
               M.training_data[k].home_won = M.training_data[l].home_won
    THEN [model |-> M, raised |-> "ValueError"]
    ELSE [model |-> [M EXCEPT !.model = Some(M.training_data)], raised |-> ""]

\* LogisticRegression.predict_proba on rows whose feature columns are all
\* constant: the scaled columns are zero, the penalised coefficients are
\* zero and the unpenalised intercept fits the share of home wins among the
\* training rows.  Only such training sets are drawn in this model.
sklearn_predict_proba(fitted_rows, features) ==
    Rat(Cardinality({k \in DOMAIN fitted_rows : fitted_rows[k].home_won}),
        Len(fitted_rows))

LogisticModel_fit(M, data) ==
    IF Len(data) < M.min_training_games
    THEN [model |-> M, raised |-> "ValueError"]
    ELSE LET M1 == [M EXCEPT !.training_data = SubSeq(data, 1, M.min_training_games)]
             t == train_model(M1)
         IN  IF t.raised # "" THEN t
             ELSE [model |-> [t.model EXCEPT !.is_fitted = TRUE], raised |-> ""]

LogisticModel_predict_proba(M, game_row) ==
    IF ~M.is_fitted \/ M.model = None
    THEN [model |-> M, raised |-> "ValueError", value |-> None]
    ELSE IF extract_features(game_row) = <<>>
    THEN [model |-> M, raised |-> "TypeError", value |-> None]
    ELSE [model |-> M, raised |-> "",
          value |-> Some(sklearn_predict_proba(M.model[1],
                                               extract_features(game_row)[1]))]

LogisticModel_update(M, game_row) ==
    LET M1 == [M EXCEPT !.training_data = Append(@, game_row),
                        !.games_since_retrain = @ + 1]
    IN  IF M1.games_since_retrain >= M1.retrain_frequency
        THEN LET t == train_model(M1)
             IN  IF t.raised # "" THEN t
                 ELSE [model |-> [t.model EXCEPT !.games_since_retrain = 0],
                       raised |-> ""]
        ELSE [model |-> M1, raised |-> ""]

\* ------------------------------------ models/base_model.py: the interface
\* Each call returns the model object after the call and the name of the
\* exception it raised ("" when it returned normally).
Model_fit(M, data) ==
    IF M.type = "Elo" THEN EloModel_fit(M, data) ELSE LogisticModel_fit(M, data)

Model_predict_proba(M, game_row) ==
    IF M.type = "Elo" THEN EloModel_predict_proba(M, game_row)
    ELSE LogisticModel_predict_proba(M, game_row)

Model_update(M, game_row) ==
    IF M.type = "Elo"
    THEN (IF ~HasKey(game_row, "home_won") THEN [model |-> M, raised |-> "KeyError"]
          ELSE [model |-> EloModel_update(M, game_row), raised |-> ""])
    ELSE LogisticModel_update(M, game_row)

\* ------------------------------------------------- simulator/bankroll.py
\* datetime.strftime('%Y-%m-%d'): a datetime is <<day, hour>>, the string
\* keeps the calendar day and drops the time of day.
strftime_ymd(date) == date[1]

BetResult(bet_id, game_id, date, bet_type, team, stake, odds, bankroll_before, model_prob, ev) ==
    [bet_id |-> bet_id, game_id |-> game_id, date |-> date,
     bet_type |-> bet_type, team |-> team, stake |-> stake, odds |-> odds,
     won |-> None, payout |-> None, profit |-> None,
     bankroll_before |-> bankroll_before, bankroll_after |-> None,
     model_prob |-> model_prob, ev |-> ev]

BetResult_settle(bet, won) ==
    IF won
    THEN LET payout == calculate_payout(bet.stake, bet.odds)
             profit == RSub(payout, bet.stake)
         IN  [bet EXCEPT !.won = Some(TRUE), !.payout = Some(payout),
                         !.profit = Some(profit),
                         !.bankroll_after = Some(RAdd(bet.bankroll_before, profit))]
    ELSE LET profit == RNeg(bet.stake)
         IN  [bet EXCEPT !.won = Some(FALSE), !.payout = Some(R(0)),
                         !.profit = Some(profit),
                         !.bankroll_after = Some(RAdd(bet.bankroll_before, profit))]

Bankroll_init(initial_bankroll, max_bet_percentage, max_daily_bets, max_game_exposure, min_bankroll) ==
    [initial_bankroll |-> initial_bankroll,
     current_bankroll |-> initial_bankroll,
     max_bet_percentage |-> max_bet_percentage,
     max_daily_bets |-> max_daily_bets,
     max_game_exposure |-> max_game_exposure,
     min_bankroll |-> min_bankroll,
     bet_history |-> <<>>,
     peak_bankroll |-> initial_bankroll,
     current_drawdown |-> R(0),
     max_drawdown |-> R(0),
     bets_today |-> EmptyDict,
     exposure_per_game |-> EmptyDict,
     next_bet_id |-> 1]

can_place_bet_always(B, stake, game_id, date) == <<TRUE, "">>

can_place_bet_no_pct(B, stake, game_id, date) ==
    IF RLe(B.current_bankroll, B.min_bankroll)
    THEN <<FALSE, "Bankroll below minimum threshold">>
    ELSE IF RGt(stake, B.current_bankroll)
    THEN <<FALSE, "Stake exceeds bankroll">>
    ELSE IF Get(B.bets_today, strftime_ymd(date), 0) >= B.max_daily_bets
    THEN <<FALSE, "Daily bet limit reached">>
    ELSE IF RGt(RAdd(Get(B.exposure_per_game, game_id, R(0)), stake),
                RMul(B.current_bankroll, B.max_game_exposure))
    THEN <<FALSE, "Game exposure exceeds limit">>
    ELSE <<TRUE, "">>

can_place_bet_daily_off_by_one(B, stake, game_id, date) ==
    IF RLe(B.current_bankroll, B.min_bankroll)
    THEN <<FALSE, "Bankroll below minimum threshold">>
    ELSE IF RGt(stake, B.current_bankroll)
    THEN <<FALSE, "Stake exceeds bankroll">>
    ELSE IF RGt(stake, RMul(B.current_bankroll, B.max_bet_percentage))
    THEN <<FALSE, "Stake exceeds max bet size">>
    ELSE IF Get(B.bets_today, strftime_ymd(date), 0) > B.max_daily_bets
    THEN <<FALSE, "Daily bet limit reached">>
    ELSE IF RGt(RAdd(Get(B.exposure_per_game, game_id, R(0)), stake),
                RMul(B.current_bankroll, B.max_game_exposure))
    THEN <<FALSE, "Game exposure exceeds limit">>
    ELSE <<TRUE, "">>

can_place_bet(B, stake, game_id, date) ==
    IF RLe(B.current_bankroll, B.min_bankroll)
    THEN <<FALSE, "Bankroll below minimum threshold">>
    ELSE IF RGt(stake, B.current_bankroll)
    THEN <<FALSE, "Stake exceeds bankroll">>
    ELSE LET max_stake == RMul(B.current_bankroll, B.max_bet_percentage) IN
    IF RGt(stake, max_stake)
    THEN <<FALSE, "Stake exceeds max bet size">>
    ELSE LET date_str == strftime_ymd(date)
             bets_today == Get(B.bets_today, date_str, 0) IN
    IF bets_today >= B.max_daily_bets
    THEN <<FALSE, "Daily bet limit reached">>
    ELSE LET current_exposure == Get(B.exposure_per_game, game_id, R(0))
             new_exposure == RAdd(current_exposure, stake)
             max_exposure == RMul(B.current_bankroll, B.max_game_exposure) IN
    IF RGt(new_exposure, max_exposure)
    THEN <<FALSE, "Game exposure exceeds limit">>
    ELSE <<TRUE, "">>

\* place_bet returns the pair (ledger after the call, returned value); the
\* returned BetResult is the object appended to bet_history, named by its
\* position in that list.
place_bet_no_exposure_update(B, game_id, date, bet_type, team, stake, odds, model_prob, ev) ==
    IF ~can_place_bet(B, stake, game_id, date)[1]
    THEN [bankroll |-> B, ret |-> None]
    ELSE LET bet == BetResult(B.next_bet_id, game_id, date, bet_type, team,
                              stake, odds, B.current_bankroll, model_prob, ev)
             date_str == strftime_ymd(date)
         IN  [bankroll |->
                [B EXCEPT !.next_bet_id = @ + 1,
                          !.bets_today = Put(@, date_str, Get(@, date_str, 0) + 1),
                          !.bet_history = Append(@, bet)],
              ret |-> Some(Len(B.bet_history) + 1)]

place_bet_id_before_check(B, game_id, date, bet_type, team, stake, odds, model_prob, ev) ==
    IF ~can_place_bet(B, stake, game_id, date)[1]
    THEN [bankroll |-> [B EXCEPT !.next_bet_id = @ + 1], ret |-> None]
    ELSE LET bet == BetResult(B.next_bet_id, game_id, date, bet_type, team,
                              stake, odds, B.current_bankroll, model_prob, ev)
             date_str == strftime_ymd(date)
         IN  [bankroll |->
                [B EXCEPT !.next_bet_id = @ + 1,
                          !.bets_today = Put(@, date_str, Get(@, date_str, 0) + 1),
                          !.exposure_per_game =
                              Put(@, game_id, RAdd(Get(@, game_id, R(0)), stake)),
                          !.bet_history = Append(@, bet)],
              ret |-> Some(Len(B.bet_history) + 1)]

place_bet(B, game_id, date, bet_type, team, stake, odds, model_prob, ev) ==
    IF ~can_place_bet(B, stake, game_id, date)[1]
    THEN [bankroll |-> B, ret |-> None]
    ELSE LET bet == BetResult(B.next_bet_id, game_id, date, bet_type, team,
                              stake, odds, B.current_bankroll, model_prob, ev)
             date_str == strftime_ymd(date)
         IN  [bankroll |->
                [B EXCEPT !.next_bet_id = @ + 1,
                          !.bets_today = Put(@, date_str, Get(@, date_str, 0) + 1),
                          !.exposure_per_game =
                              Put(@, game_id, RAdd(Get(@, game_id, R(0)), stake)),
                          !.bet_history = Append(@, bet)],
              ret |-> Some(Len(B.bet_history) + 1)]

settle_bet_peak_never_raised(B, ref, won) ==
    LET bet == BetResult_settle(B.bet_history[ref], won)
        current == bet.bankroll_after[1]
        dd == RDiv(RSub(B.peak_bankroll, current), B.peak_bankroll)
    IN  [B EXCEPT !.bet_history[ref] = bet,
                  !.current_bankroll = current,
                  !.current_drawdown = dd,
                  !.max_drawdown = RMax(@, dd)]

settle_bet_adds_to_current(B, ref, won) ==
    LET bet == BetResult_settle(B.bet_history[ref], won)
        current == RAdd(B.current_bankroll, bet.profit[1])
    IN  IF RGt(current, B.peak_bankroll)
        THEN [B EXCEPT !.bet_history[ref] = bet,
                       !.current_bankroll = current,
                       !.peak_bankroll = current,
                       !.current_drawdown = R(0)]
        ELSE LET dd == RDiv(RSub(B.peak_bankroll, current), B.peak_bankroll)
             IN  [B EXCEPT !.bet_history[ref] = bet,
                           !.current_bankroll = current,
                           !.current_drawdown = dd,
                           !.max_drawdown = RMax(@, dd)]

settle_bet(B, ref, won) ==
    LET bet == BetResult_settle(B.bet_history[ref], won)
        current == bet.bankroll_after[1]
    IN  IF RGt(current, B.peak_bankroll)
        THEN [B EXCEPT !.bet_history[ref] = bet,
                       !.current_bankroll = current,
                       !.peak_bankroll = current,
                       !.current_drawdown = R(0)]
        ELSE LET dd == RDiv(RSub(B.peak_bankroll, current), B.peak_bankroll)
             IN  [B EXCEPT !.bet_history[ref] = bet,
                           !.current_bankroll = current,
                           !.current_drawdown = dd,
                           !.max_drawdown = RMax(@, dd)]

Bankroll_reset_keeps_daily_counts(B) ==
    [B EXCEPT !.current_bankroll = B.initial_bankroll,
              !.bet_history = <<>>,
              !.peak_bankroll = B.initial_bankroll,
              !.current_drawdown = R(0),
              !.max_drawdown = R(0),
              !.exposure_per_game = EmptyDict,
              !.next_bet_id = 1]

Bankroll_reset(B) ==
    [B EXCEPT !.current_bankroll = B.initial_bankroll,
              !.bet_history = <<>>,
              !.peak_bankroll = B.initial_bankroll,
              !.current_drawdown = R(0),
              !.max_drawdown = R(0),
              !.bets_today = EmptyDict,
              !.exposure_per_game = EmptyDict,
              !.next_bet_id = 1]

RECURSIVE SumProfit(_)
SumProfit(bets) ==
    IF bets = <<>> THEN R(0) ELSE RAdd(Head(bets).profit[1], SumProfit(Tail(bets)))

RECURSIVE SumStake(_)
SumStake(bets) ==
    IF bets = <<>> THEN R(0) ELSE RAdd(Head(bets).stake, SumStake(Tail(bets)))

Infinity == [n |-> 1, d |-> 0]

calculate_profit_factor(bets) ==
    LET total_wins == SumProfit(SelectSeq(bets, LAMBDA b : b.won = Some(TRUE)))
        losses == SumProfit(SelectSeq(bets, LAMBDA b : b.won # Some(TRUE)))
        total_losses == IF losses.n < 0 THEN RNeg(losses) ELSE losses
    IN  IF total_losses = R(0)
        THEN (IF RGt(total_wins, R(0)) THEN Infinity ELSE R(0))
        ELSE RDiv(total_wins, total_losses)

get_stats(B) ==
    LET settled_bets == SelectSeq(B.bet_history, LAMBDA b : b.won # None)
    IN  IF settled_bets = <<>>
        THEN [initial_bankroll |-> B.initial_bankroll,
              current_bankroll |-> B.current_bankroll,
              total_bets |-> 0, total_profit |-> R(0), roi |-> R(0)]
        ELSE LET total_staked == SumStake(settled_bets)
                 total_profit == SumProfit(settled_bets)
                 wins == Len(SelectSeq(settled_bets, LAMBDA b : b.won = Some(TRUE)))
                 roi == IF RGt(total_staked, R(0))
                        THEN RDiv(total_profit, total_staked) ELSE R(0)
             IN  [initial_bankroll |-> B.initial_bankroll,
                  current_bankroll |-> B.current_bankroll,
                  peak_bankroll |-> B.peak_bankroll,
                  total_bets |-> Len(settled_bets),
                  wins |-> wins,
                  losses |-> Len(settled_bets) - wins,
                  win_rate |-> Rat(wins, Len(settled_bets)),
                  total_staked |-> total_staked,
                  total_profit |-> total_profit,
                  roi |-> roi,
                  roi_percentage |-> RMul(roi, R(100)),
                  current_drawdown |-> B.current_drawdown,
                  max_drawdown |-> B.max_drawdown,
                  profit_factor |-> calculate_profit_factor(settled_bets)]

\* ----------------------------------------------- simulator/backtester.py
BacktestConfig(model_object, max_daily_bets, bet_sizing_method, seasons) ==
    [model |-> model_object,
     initial_bankroll |-> R(1000),
     max_bet_percentage |-> Rat(5, 100),
     max_daily_bets |-> max_daily_bets,
     max_game_exposure |-> Rat(10, 100),
     min_ev |-> Rat(2, 100),
     min_edge |-> Rat(1, 100),
     bet_sizing_method |-> bet_sizing_method,
     kelly_fraction |-> Rat(25, 100),
     flat_percentage |-> Rat(1, 100),
     min_bet_amount |-> R(10),
     max_bet_amount |-> None,
     vig_method |-> "proportional",
     start_date |-> None,
     end_date |-> None,
     seasons |-> seasons]

\* datetimes <<day, hour>> compare in chronological order
DateLe(a, b) == a[1] < b[1] \/ (a[1] = b[1] /\ a[2] <= b[2])

filter_games(cfg, game_list) ==
    LET f1 == IF cfg.start_date # None
              THEN SelectSeq(game_list, LAMBDA g : DateLe(cfg.start_date[1], g.date))
              ELSE game_list
        f2 == IF cfg.end_date # None
              THEN SelectSeq(f1, LAMBDA g : DateLe(g.date, cfg.end_date[1]))
              ELSE f1
    IN  IF cfg.seasons # None
        THEN SelectSeq(f2, LAMBDA g : g.season \in cfg.seasons[1])
        ELSE f2

\* _determine_bet_outcome: <<won>>, or <<>> when it raises: KeyError for a
\* moneyline bet on a game without an outcome, ValueError for an unknown
\* bet type (determine_bet_outcome_raises names the exception).
determine_bet_outcome(game, bet_type) ==
    CASE bet_type \in {"moneyline_home", "moneyline_away"} /\ ~HasKey(game, "home_won") -> <<>>
      [] bet_type = "moneyline_home" -> <<game.home_won>>
      [] bet_type = "moneyline_away" -> <<~game.home_won>>
      [] bet_type = "spread_home" -> <<game.margin > -game.spread>>
      [] bet_type = "spread_away" -> <<-game.margin > game.spread>>
      [] OTHER -> <<>>

determine_bet_outcome_raises(game, bet_type) ==
    IF determine_bet_outcome(game, bet_type) # <<>> THEN ""
    ELSE IF bet_type \in {"moneyline_home", "moneyline_away"} THEN "KeyError"
    ELSE "ValueError"

generate_results(cfg, counters, B) ==
    [config |-> [model |-> cfg.model.type,
                 initial_bankroll |-> cfg.initial_bankroll,
                 bet_sizing_method |-> cfg.bet_sizing_method,
                 min_ev |-> cfg.min_ev,
                 kelly_fraction |-> cfg.kelly_fraction],
     games_processed |-> counters.games_processed,
     bets_attempted |-> counters.bets_attempted,
     bets_placed |-> counters.bets_placed,
     bets_rejected |-> counters.bets_rejected,
     bet_rate |-> IF counters.games_processed > 0
                  THEN Rat(counters.bets_placed, counters.games_processed)
                  ELSE R(0),
     bankroll |-> get_stats(B),
     bet_history |-> B.bet_history]

Backtester_counters ==
    [games_processed |-> 0, bets_attempted |-> 0, bets_placed |-> 0, bets_rejected |-> 0]

\* Backtester.__init__: the ledger it builds from the configuration.
Backtester_init(cfg) ==
    Bankroll_init(cfg.initial_bankroll, cfg.max_bet_percentage, cfg.max_daily_bets, cfg.max_game_exposure, R(0))

\* The try/except around predict_proba in _process_game: any exception is
\* caught (failed), otherwise the probability is kept.
try_predict_failure_ignored(M, game) ==
    LET r == Model_predict_proba(M, game)
    IN  [model |-> r.model, failed |-> FALSE,
         home_win_prob |-> IF r.raised # "" THEN Some(Rat(1, 2)) ELSE r.value]

try_predict(M, game) ==
    LET r == Model_predict_proba(M, game)
    IN  [model |-> r.model, failed |-> r.raised # "", home_win_prob |-> r.value]

after_place_bet_rejection_uncounted(c1, game, opp, p) ==
    IF p.ret = None
    THEN [bankroll |-> p.bankroll, counters |-> c1, raised |-> ""]
    ELSE IF determine_bet_outcome(game, opp.bet_type) = <<>>
    THEN [bankroll |-> p.bankroll,
          counters |-> [c1 EXCEPT !.bets_placed = @ + 1],
          raised |-> determine_bet_outcome_raises(game, opp.bet_type)]
    ELSE [bankroll |-> settle_bet(p.bankroll, p.ret[1],
                                  determine_bet_outcome(game, opp.bet_type)[1]),
          counters |-> [c1 EXCEPT !.bets_placed = @ + 1], raised |-> ""]

after_place_bet_leaves_pending(c1, game, opp, p) ==
    IF p.ret = None
    THEN [bankroll |-> p.bankroll,
          counters |-> [c1 EXCEPT !.bets_rejected = @ + 1], raised |-> ""]
    ELSE [bankroll |-> p.bankroll,
          counters |-> [c1 EXCEPT !.bets_placed = @ + 1], raised |-> ""]

\* _place_bet_for_opportunity, lines 218-228: what follows place_bet, whose
\* result is p.
after_place_bet(c1, game, opp, p) ==
    IF p.ret = None
    THEN [bankroll |-> p.bankroll,
          counters |-> [c1 EXCEPT !.bets_rejected = @ + 1], raised |-> ""]
    ELSE IF determine_bet_outcome(game, opp.bet_type) = <<>>
    THEN [bankroll |-> p.bankroll,
          counters |-> [c1 EXCEPT !.bets_placed = @ + 1],
          raised |-> determine_bet_outcome_raises(game, opp.bet_type)]
    ELSE [bankroll |-> settle_bet(p.bankroll, p.ret[1],
                                  determine_bet_outcome(game, opp.bet_type)[1]),
          counters |-> [c1 EXCEPT !.bets_placed = @ + 1], raised |-> ""]

\* _place_bet_for_opportunity, lines 201-216: what follows calculate_stake,
\* whose result is stake.
after_calculate_stake(B, c1, game, opp, stake) ==
    IF stake = <<>>
    THEN [bankroll |-> B, counters |-> c1, raised |-> "ValueError"]
    ELSE IF stake[1] = R(0)
    THEN [bankroll |-> B, counters |-> [c1 EXCEPT !.bets_rejected = @ + 1],
          raised |-> ""]
    ELSE after_place_bet(c1, game, opp,
             place_bet(B, game.game_id, game.date, opp.bet_type, opp.team,
                       stake[1], opp.odds, opp.model_prob, opp.ev))

\* _place_bet_for_opportunity: the ledger and the counters after the call and
\* the exception it let through ("" when it returned).
place_bet_for_opportunity(cfg, B, counters, game, opp) ==
    after_calculate_stake(B, [counters EXCEPT !.bets_attempted = @ + 1], game, opp,
        calculate_stake(opp.model_prob, opp.odds, B.current_bankroll,
                        cfg.bet_sizing_method, cfg.kelly_fraction,
                        cfg.flat_percentage, cfg.max_bet_percentage,
                        cfg.min_bet_amount, cfg.max_bet_amount))

\* ------------------------------------------------------------------ state
VARIABLES
    bankroll,       \* the Bankroll object
    call,           \* the most recent call made on the ledger and its arguments
    ret,            \* what that call returned
    config,         \* Backtester.config
    model,          \* Backtester.model
    counters,       \* games_processed, bets_attempted, bets_placed, bets_rejected
    games,          \* run's local `games`
    pc,             \* where run stands
    i,              \* position in `games` of the game being processed (from 1)
    home_win_prob,  \* _process_game's local, None before the prediction
    opportunities,  \* the opportunities of the game not yet iterated over
    warnings,       \* game ids of the "prediction failed" warnings printed
    raised,         \* the exception run let through, "" if none
    results,        \* what run returned, None before it returns
    previous,       \* what an earlier execution of run on the same input left, None if none
    assessed,       \* the opportunities reality_check_ev_opportunity was called on
    np_random       \* the state of numpy's process-global random generator

runVars == <<config, model, counters, games, pc, i, home_win_prob, opportunities, warnings, raised, results>>
auxVars == <<previous, assessed, np_random>>
vars == <<bankroll, call, ret, config, model, counters, games, pc, i, home_win_prob, opportunities, warnings, raised, results, previous, assessed, np_random>>

\* Nothing has run before, no opportunity has been assessed, the generator
\* is in its first state.
InitAux ==
    /\ previous = None
    /\ assessed = {}
    /\ np_random = 0

\* ------------------------------------------- a caller driving the ledger
\* The place_bet calls a caller makes: two games on day 1 at different times
\* of day and one game on day 2, stakes at, below and above 5% of the
\* initial bankroll and one above the whole bankroll, a favourite's and an
\* underdog's odds.
Orders == {
    [game_id |-> "G1", date |-> <<1, 19>>, stake |-> R(50), odds |-> -200],
    [game_id |-> "G1", date |-> <<1, 19>>, stake |-> R(46), odds |-> 150],
    [game_id |-> "G1", date |-> <<1, 19>>, stake |-> R(60), odds |-> 150],
    [game_id |-> "G2", date |-> <<1, 22>>, stake |-> R(1200), odds |-> 150],
    [game_id |-> "G2", date |-> <<1, 22>>, stake |-> R(50), odds |-> 150],
    [game_id |-> "G3", date |-> <<2, 19>>, stake |-> R(46), odds |-> -200] }

\* No Backtester exists while a caller drives the ledger directly.
NoBacktester ==
    /\ config = None
    /\ model = None
    /\ counters = Backtester_counters
    /\ games = <<>>
    /\ pc = "none"
    /\ i = 0
    /\ home_win_prob = None
    /\ opportunities = <<>>
    /\ warnings = <<>>
    /\ raised = ""
    /\ results = None

InitLedger ==
    /\ \E mdb \in 1..MaxDaily :
         bankroll = Bankroll_init(R(1000), Rat(5, 100), mdb, Rat(10, 100), R(0))
    /\ call = [op |-> "init"]
    /\ ret = None
    /\ NoBacktester
    /\ InitAux

\* place_bet(...): `call` keeps the arguments the claims speak of and the
\* (allowed, reason) pair that can_place_bet returned to it (line 213).
PlaceBet ==
    /\ pc = "none"
    /\ \E o \in Orders :
        LET r == place_bet(bankroll, o.game_id, o.date, "moneyline_home", "HOME",
                           o.stake, o.odds, R(0), R(0))
        IN  /\ (r.ret # None) => Len(bankroll.bet_history) < MaxBets
            /\ call' = [op |-> "place_bet", stake |-> o.stake,
                        game_id |-> o.game_id,
                        check |-> can_place_bet(bankroll, o.stake, o.game_id, o.date)]
            /\ bankroll' = r.bankroll
            /\ ret' = r.ret
    /\ UNCHANGED runVars
    /\ UNCHANGED auxVars

SettleBet ==
    /\ pc = "none"
    /\ \E ref \in 1..Len(bankroll.bet_history), won \in BOOLEAN :
        /\ call' = [op |-> "settle_bet", bet |-> ref, won |-> won]
        /\ bankroll' = settle_bet(bankroll, ref, won)
        /\ ret' = None
    /\ UNCHANGED runVars
    /\ UNCHANGED auxVars

NextLedger == PlaceBet \/ SettleBet

SpecLedger == InitLedger /\ [][NextLedger]_vars

\* ------------------------------------------------------- Backtester.run
\* The games a run is given are drawn from five kinds of game between two
\* teams (one of them without rest days, one without an outcome); a game's id, date and season follow from its position in the list
\* (three games a day, the season changing after the second game), so
\* every list is in chronological order.
GameKinds == {
    [home_team |-> "BOS", away_team |-> "LAL", home_won |-> TRUE, margin |-> 5,
     moneyline_home |-> 100, moneyline_away |-> -120,
     home_rest_days |-> Some(1), away_rest_days |-> Some(1)],
    [home_team |-> "BOS", away_team |-> "LAL", home_won |-> FALSE, margin |-> -7,
     moneyline_home |-> -200, moneyline_away |-> 150,
     home_rest_days |-> Some(2), away_rest_days |-> Some(2)],
    [home_team |-> "LAL", away_team |-> "BOS", home_won |-> FALSE, margin |-> -3,
     moneyline_home |-> 100, moneyline_away |-> -120,
     home_rest_days |-> Some(1), away_rest_days |-> Some(1)],
    [home_team |-> "LAL", away_team |-> "BOS", home_won |-> TRUE, margin |-> 12,
     moneyline_home |-> -200, moneyline_away |-> 150,
     home_rest_days |-> None, away_rest_days |-> Some(1)],
    [home_team |-> "BOS", away_team |-> "LAL", margin |-> 0,
     moneyline_home |-> -110, moneyline_away |-> -110,
     home_rest_days |-> Some(1), away_rest_days |-> Some(1)] }

GameIds == <<"G1", "G2", "G3", "G4", "G5", "G6">>

MakeGame(kind, position) ==
    (IF HasKey(kind, "home_won") THEN [home_won |-> kind.home_won] ELSE EmptyDict) @@
    [game_id |-> GameIds[position],
     date |-> <<(position + 2) \div 3, <<13, 19, 22>>[((position - 1) % 3) + 1]>>,
     season |-> IF position <= 2 THEN 2023 ELSE 2024,
     home_team |-> kind.home_team, away_team |-> kind.away_team,
     margin |-> kind.margin,
     home_score |-> 100 + (IF kind.margin > 0 THEN kind.margin ELSE 0),
     away_score |-> 100 + (IF kind.margin < 0 THEN -kind.margin ELSE 0),
     moneyline_home |-> kind.moneyline_home, moneyline_away |-> kind.moneyline_away,
     spread |-> 0, spread_odds_home |-> -110, spread_odds_away |-> -110,
     home_rest_days |-> kind.home_rest_days, away_rest_days |-> kind.away_rest_days,
     is_playoff |-> FALSE]

GameLists ==
    UNION {{[k \in 1..n |-> MakeGame(f[k], k)] : f \in [1..n -> GameKinds]} : n \in 1..MaxGames}

Configs == {
    BacktestConfig(EloModel_init(R(20), R(100), R(1500), Rat(75, 100)), 2, "kelly", None),
    BacktestConfig(EloModel_init(R(20), R(100), R(1500), Rat(75, 100)), 1, "flat", None),
    BacktestConfig(EloModel_init(R(20), R(100), R(1500), Rat(75, 100)), 2, "fractional_kelly", Some({2024})),
    BacktestConfig(LogisticModel_init(2, 2), 2, "fractional_kelly", None) }

\* Backtester(config) has been constructed and run(games) is about to be
\* called.
InitRun ==
    /\ config \in Configs
    /\ games \in GameLists
    /\ model = config.model
    /\ bankroll = Backtester_init(config)
    /\ counters = Backtester_counters
    /\ pc = "run"
    /\ i = 0
    /\ home_win_prob = None
    /\ opportunities = <<>>
    /\ warnings = <<>>
    /\ raised = ""
    /\ results = None
    /\ call = [op |-> "init"]
    /\ ret = None
    /\ InitAux

\* run, lines 107-118: reset, filter, refuse an empty list.
Begin ==
    /\ pc = "run"
    /\ bankroll' = Bankroll_reset(bankroll)
    /\ counters' = Backtester_counters
    /\ games' = filter_games(config, games)
    /\ IF games' = <<>>
       THEN pc' = "raised" /\ raised' = "ValueError"
       ELSE pc' = "fit" /\ raised' = ""
    /\ UNCHANGED <<call, ret, config, model, i, home_win_prob, opportunities, warnings, results>>
    /\ UNCHANGED auxVars

\* run, line 122: self.model.fit(games).
Fit ==
    /\ pc = "fit"
    /\ model' = Model_fit(model, games).model
    /\ raised' = Model_fit(model, games).raised
    /\ IF raised' # ""
       THEN pc' = "raised" /\ i' = i
       ELSE pc' = "loop" /\ i' = 1
    /\ UNCHANGED <<bankroll, call, ret, config, counters, games, home_win_prob, opportunities, warnings, results>>
    /\ UNCHANGED auxVars

\* _process_game, lines 152-156: the prediction for game i.  A failure is
\* caught: a warning is printed, _process_game returns, and run counts the
\* game as processed and moves on.
Predict ==
    /\ pc = "loop"
    /\ i <= Len(games)
    /\ LET r == try_predict(model, games[i])
       IN  /\ model' = r.model
           /\ IF r.failed
              THEN /\ warnings' = Append(warnings, games[i].game_id)
                   /\ counters' = [counters EXCEPT !.games_processed = @ + 1]
                   /\ i' = i + 1
                   /\ pc' = "loop"
                   /\ home_win_prob' = None
              ELSE /\ home_win_prob' = r.home_win_prob
                   /\ pc' = "predicted"
                   /\ UNCHANGED <<warnings, counters, i>>
    /\ UNCHANGED <<bankroll, call, ret, config, games, opportunities, raised, results>>
    /\ UNCHANGED auxVars

\* _process_game, lines 159-165.
FindOpportunities ==
    /\ pc = "predicted"
    /\ opportunities' = find_ev_opportunities(games[i], home_win_prob[1], None,
                            config.min_ev, config.min_edge, config.vig_method)
    /\ pc' = "bets"
    /\ UNCHANGED <<bankroll, call, ret, config, model, counters, games, i, home_win_prob, warnings, raised, results>>
    /\ UNCHANGED auxVars

\* _process_game, lines 168-169: one turn of the loop over the opportunities.
PlaceBetForOpportunity ==
    /\ pc = "bets"
    /\ opportunities # <<>>
    /\ \E r \in {place_bet_for_opportunity(config, bankroll, counters, games[i],
                                           Head(opportunities))} :
           /\ bankroll' = r.bankroll
           /\ counters' = r.counters
           /\ raised' = r.raised
           /\ pc' = IF r.raised # "" THEN "raised" ELSE "bets"
    /\ opportunities' = Tail(opportunities)
    /\ UNCHANGED <<call, ret, config, model, games, i, home_win_prob, warnings, results>>
    /\ UNCHANGED auxVars

\* _process_game, line 172, and run, line 128: the model learns the outcome
\* of game i (outside the try block: an exception ends the run), the game
\* is counted.
UpdateModel ==
    /\ pc = "bets"
    /\ opportunities = <<>>
    /\ \E r \in {Model_update(model, games[i])} :
           /\ model' = r.model
           /\ raised' = r.raised
           /\ IF r.raised # ""
              THEN pc' = "raised" /\ UNCHANGED <<counters, i, home_win_prob>>
              ELSE /\ pc' = "loop"
                   /\ counters' = [counters EXCEPT !.games_processed = @ + 1]
                   /\ i' = i + 1
                   /\ home_win_prob' = None
    /\ UNCHANGED <<bankroll, call, ret, config, games, opportunities, warnings, results>>
    /\ UNCHANGED auxVars

\* run, lines 135-142.
Finish ==
    /\ pc = "loop"
    /\ i > Len(games)
    /\ results' = Some(generate_results(config, counters, bankroll))
    /\ pc' = "complete"
    /\ UNCHANGED <<bankroll, call, ret, config, model, counters, games, i, home_win_prob, opportunities, warnings, raised>>
    /\ UNCHANGED auxVars

NextRun ==
    \/ Begin
    \/ Fit
    \/ Predict
    \/ FindOpportunities
    \/ PlaceBetForOpportunity
    \/ UpdateModel
    \/ Finish

SpecRun == InitRun /\ [][NextRun]_vars

\* ------------------------------------------- evaluation/variance_analyzer.py
\* numpy's process-global generator is the variable np_random.  It stands
\* in for the Mersenne Twister by a full-period congruential generator on
\* RngModulus states: random() advances the state and returns a value in
\* [0, 1) that the new state determines; seed(s) puts the generator in the
\* state that s determines.
RngModulus == 4

np_random_next(state) == (5 * state + 3) % RngModulus

np_random_random(state) == Rat(np_random_next(state), RngModulus)

np_random_seed(random_seed) == random_seed % RngModulus

RECURSIVE np_random_after(_, _)
np_random_after(state, draws) ==
    IF draws = 0 THEN state ELSE np_random_after(np_random_next(state), draws - 1)

\* lines 67-80: one wager of one trial, `draw` being what np.random.random()
\* returned for it.
simulated_profit(prob, odds, stake, draw) ==
    IF RLt(draw, prob)
    THEN (IF odds < 0 THEN RMul(stake, Rat(100, Abs(odds)))
          ELSE RMul(stake, Rat(odds, 100)))
    ELSE RNeg(stake)

\* lines 64-80: one trial, the generator being in `state` when it starts.
RECURSIVE simulated_total_profit(_, _)
simulated_total_profit(bets, state) ==
    IF bets = <<>> THEN R(0)
    ELSE RAdd(simulated_profit(Get(Head(bets), "model_prob", Rat(1, 2)),
                               Get(Head(bets), "odds", -110),
                               Get(Head(bets), "stake", R(100)),
                               np_random_random(state)),
              simulated_total_profit(Tail(bets), np_random_next(state)))

\* lines 61-84: the trial totals in the order of the trials.
simulated_results(bets, n_simulations, state) ==
    [t \in 1..n_simulations |->
        simulated_total_profit(bets, np_random_after(state, (t - 1) * Len(bets)))]

RECURSIVE RSum(_)
RSum(xs) == IF xs = <<>> THEN R(0) ELSE RAdd(Head(xs), RSum(Tail(xs)))

RECURSIVE InsertAscending(_, _)
InsertAscending(sorted, x) ==
    IF sorted = <<>> THEN <<x>>
    ELSE IF RLt(x, Head(sorted)) THEN <<x>> \o sorted
    ELSE <<Head(sorted)>> \o InsertAscending(Tail(sorted), x)

RECURSIVE np_sort(_)
np_sort(xs) ==
    IF xs = <<>> THEN <<>>
    ELSE InsertAscending(np_sort(SubSeq(xs, 1, Len(xs) - 1)), xs[Len(xs)])

np_mean(xs) == RDiv(RSum(xs), R(Len(xs)))

\* np.median of an ascending array.
np_median(sorted) ==
    IF Len(sorted) % 2 = 1 THEN sorted[(Len(sorted) + 1) \div 2]
    ELSE RDiv(RAdd(sorted[Len(sorted) \div 2], sorted[Len(sorted) \div 2 + 1]), R(2))

\* np.std is the square root of the population variance; the root is kept
\* symbolic, two standard deviations being equal exactly when the
\* variances under the root are.
np_std(xs, mean) ==
    [sqrt_of |-> RDiv(RSum([k \in 1..Len(xs) |->
                             RMul(RSub(xs[k], mean), RSub(xs[k], mean))]),
                      R(Len(xs)))]

\* np.percentile of an ascending array, linear interpolation between the
\* two nearest ranks.
np_percentile(sorted, q) ==
    IF (q * (Len(sorted) - 1)) \div 100 + 2 > Len(sorted) THEN sorted[Len(sorted)]
    ELSE RAdd(sorted[(q * (Len(sorted) - 1)) \div 100 + 1],
              RMul(RSub(Rat(q * (Len(sorted) - 1), 100),
                        R((q * (Len(sorted) - 1)) \div 100)),
                   RSub(sorted[(q * (Len(sorted) - 1)) \div 100 + 2],
                        sorted[(q * (Len(sorted) - 1)) \div 100 + 1])))

\* lines 86-116.
outcome_statistics(outcomes, sorted, mean, std, n_simulations) ==
    [mean_profit |-> mean,
     median_profit |-> np_median(sorted),
     std_dev |-> std,
     percentile_5 |-> np_percentile(sorted, 5),
     percentile_25 |-> np_percentile(sorted, 25),
     percentile_75 |-> np_percentile(sorted, 75),
     percentile_95 |-> np_percentile(sorted, 95),
     prob_profit |-> Rat(Cardinality({k \in 1..Len(outcomes) : RGt(outcomes[k], R(0))}),
                         n_simulations),
     prob_loss |-> RSub(R(1), Rat(Cardinality({k \in 1..Len(outcomes) :
                                                  RGt(outcomes[k], R(0))}),
                                  n_simulations)),
     worst_case |-> sorted[1],
     best_case |-> sorted[Len(sorted)],
     coefficient_of_variation |->
         IF mean # R(0)
         THEN [sqrt_of |-> RDiv(std.sqrt_of, RMul(mean, mean))]
         ELSE Infinity]

results_statistics(outcomes, mean, n_simulations) ==
    outcome_statistics(outcomes, np_sort(outcomes), mean, np_std(outcomes, mean),
                       n_simulations)

\* simulate_betting_outcomes(self, bets, n_simulations), the generator being
\* in `state` when it is called: what it returns.
simulate_betting_outcomes(bets, n_simulations, state) ==
    results_statistics(simulated_results(bets, n_simulations, state),
                       np_mean(simulated_results(bets, n_simulations, state)),
                       n_simulations)

\* base ** exponent for an exponent that is a whole number, which is what
\* bankroll / avg_bet_size is for every input drawn below.
RECURSIVE float_pow(_, _)
float_pow(base, exponent) ==
    IF exponent.n <= 0 THEN R(1)
    ELSE RMul(base, float_pow(base, RSub(exponent, R(1))))

\* lines 146-165 for edge_per_bet > 0: the approximation for small edges,
\* 0.01 for large ones.
positive_edge_risk_of_ruin(edge_per_bet, units) ==
    IF RLt(edge_per_bet, Rat(2, 10))
    THEN float_pow(RDiv(RSub(R(1), edge_per_bet), RAdd(R(1), edge_per_bet)), units)
    ELSE Rat(1, 100)

\* lines 167-184, reached with kelly_fraction bound.
risk_of_ruin_report(bankroll_amount, risk_of_ruin, units, edge_per_bet, kelly_fraction) ==
    [risk_of_ruin |-> risk_of_ruin,
     bankroll_units |-> units,
     edge_per_bet |-> edge_per_bet,
     median_bets_to_ruin |->
         IF RGt(risk_of_ruin, Rat(1, 2))
         THEN (IF edge_per_bet # R(0)
               THEN RDiv(units, RMul(R(2), IF edge_per_bet.n < 0 THEN RNeg(edge_per_bet)
                                           ELSE edge_per_bet))
               ELSE units)
         ELSE Infinity,
     kelly_fraction |-> kelly_fraction,
     safe_bet_size |-> RMul(bankroll_amount, RMul(kelly_fraction, Rat(25, 100))),
     current_risk_level |->
         IF RGt(risk_of_ruin, Rat(5, 100)) THEN "HIGH"
         ELSE IF RGt(risk_of_ruin, Rat(1, 100)) THEN "MODERATE" ELSE "LOW"]

\* lines 146-184 once the two divisions by avg_bet_size have succeeded.
\* kelly_fraction is assigned on the positive-edge branch only (line 159);
\* on the other branch line 174 reads it unbound.
risk_of_ruin_from_edge(bankroll_amount, expected_value_per_bet, edge_per_bet, units, avg_win_payoff) ==
    IF RLe(edge_per_bet, R(0))
    THEN [raised |-> "UnboundLocalError", value |-> None]
    ELSE [raised |-> "",
          value |-> Some(risk_of_ruin_report(bankroll_amount,
                             positive_edge_risk_of_ruin(edge_per_bet, units),
                             units, edge_per_bet,
                             RDiv(expected_value_per_bet, avg_win_payoff)))]

expected_value_per_bet(win_rate, avg_win_payoff, avg_loss_payoff) ==
    RSub(RMul(win_rate, avg_win_payoff), RMul(RSub(R(1), win_rate), avg_loss_payoff))

\* calculate_risk_of_ruin(self, bankroll, avg_bet_size, win_rate,
\* avg_win_payoff, avg_loss_payoff): what it returns, or what it raises.
calculate_risk_of_ruin(bankroll_amount, avg_bet_size, win_rate, avg_win_payoff, avg_loss_payoff) ==
    IF avg_bet_size = R(0)
    THEN [raised |-> "ZeroDivisionError", value |-> None]
    ELSE risk_of_ruin_from_edge(bankroll_amount,
             expected_value_per_bet(win_rate, avg_win_payoff, avg_loss_payoff),
             RDiv(expected_value_per_bet(win_rate, avg_win_payoff, avg_loss_payoff),
                  avg_bet_size),
             RDiv(bankroll_amount, avg_bet_size),
             avg_win_payoff)

\* The wagers given to the simulation; a key left out takes the default of
\* bet.get (lines 66-68).
SimulatedBets ==
    { EmptyDict,
      [model_prob |-> Rat(3, 4), odds |-> 150, stake |-> R(10)] }

SimulatedBetLists ==
    {<<>>} \cup {<<a>> : a \in SimulatedBets}
           \cup {<<a, b>> : a \in SimulatedBets, b \in SimulatedBets}

\* A process that holds a VarianceAnalyzer and no Backtester; the generator
\* is in whatever state the process start left it.
InitSimulation ==
    /\ bankroll = None
    /\ call = [op |-> "init"]
    /\ ret = None
    /\ NoBacktester
    /\ previous = None
    /\ assessed = {}
    /\ np_random \in 0..(RngModulus - 1)

\* analyzer.simulate_betting_outcomes(bets, n_simulations) or, with a seed
\* named, analyzer.simulate_betting_outcomes(bets, n_simulations, seed=s):
\* the signature (lines 43-47) has no such parameter and the call raises
\* TypeError before the body runs.  `previous` keeps the call before this
\* one and its outcome; the process makes two calls.
SimulateBettingOutcomes ==
    /\ pc = "none"
    /\ previous = None
    /\ \E bets \in SimulatedBetLists, n_simulations \in 1..MaxSimulations,
          seed \in {None, Some(42)} :
          /\ call' = [op |-> "simulate_betting_outcomes", bets |-> bets,
                      n_simulations |-> n_simulations, seed |-> seed]
          /\ raised' = IF seed # None THEN "TypeError" ELSE ""
          /\ ret' = IF seed # None THEN None
                    ELSE Some(simulate_betting_outcomes(bets, n_simulations, np_random))
          /\ np_random' = IF seed # None THEN np_random
                          ELSE np_random_after(np_random, n_simulations * Len(bets))
    /\ previous' = IF call.op = "init" THEN None
                   ELSE Some([call |-> call, ret |-> ret, raised |-> raised])
    /\ UNCHANGED <<bankroll, config, model, counters, games, pc, i, home_win_prob,
                   opportunities, warnings, results, assessed>>

\* Other code of the process draws from the same generator, as
\* simulate_kelly_growth does (strategy/bet_sizing.py line 228).
NumpyRandomRandom ==
    /\ pc = "none"
    /\ np_random' = np_random_next(np_random)
    /\ UNCHANGED <<bankroll, call, ret, runVars, previous, assessed>>

\* Other code of the process seeds the generator, as simulate_kelly_growth
\* does (strategy/bet_sizing.py line 213).
NumpyRandomSeed ==
    /\ pc = "none"
    /\ \E random_seed \in {0, 1, 42} : np_random' = np_random_seed(random_seed)
    /\ UNCHANGED <<bankroll, call, ret, runVars, previous, assessed>>

\* A caller asks for the risk of ruin of a strategy: losing, break-even,
\* slightly and strongly winning ones, bankrolls of 1, 2 and 4 average
\* bets, and an average bet size of 0.
InitRuin ==
    /\ bankroll = None
    /\ ret = None
    /\ NoBacktester
    /\ InitAux
    /\ \E bankroll_amount \in {R(100), R(200)}, avg_bet_size \in {R(0), R(50), R(100)},
          win_rate \in {Rat(2, 5), Rat(1, 2), Rat(11, 20), Rat(3, 5), Rat(9, 10)},
          avg_win_payoff \in {R(0), R(100)}, avg_loss_payoff \in {R(100), R(120)} :
          call = [op |-> "caller", bankroll |-> bankroll_amount,
                  avg_bet_size |-> avg_bet_size, win_rate |-> win_rate,
                  avg_win_payoff |-> avg_win_payoff,
                  avg_loss_payoff |-> avg_loss_payoff]

CalculateRiskOfRuin ==
    /\ pc = "none"
    /\ call.op = "caller"
    /\ call' = [call EXCEPT !.op = "calculate_risk_of_ruin"]
    /\ \E r \in {calculate_risk_of_ruin(call.bankroll, call.avg_bet_size, call.win_rate,
                                         call.avg_win_payoff, call.avg_loss_payoff)} :
          /\ raised' = r.raised
          /\ ret' = r.value
    /\ UNCHANGED <<bankroll, config, model, counters, games, pc, i, home_win_prob,
                   opportunities, warnings, results>>
    /\ UNCHANGED auxVars

NextRuin == CalculateRiskOfRuin

SpecRuin == InitRuin /\ [][NextRuin]_vars

NextSimulation ==
    \/ SimulateBettingOutcomes
    \/ NumpyRandomRandom
    \/ NumpyRandomSeed

SpecSimulation == InitSimulation /\ [][NextSimulation]_vars

\* ------------------------------------------- odds/vig_removal.py called
\* A caller converts two quoted prices and removes the vig from the pair.
QuotedOdds == {-200, -150, -120, -110, 100, 150}

VigMethods == {"proportional", "additive", "power", "shin"}

\* The caller has converted the two prices and not yet made the call.
InitVig ==
    /\ bankroll = None
    /\ ret = None
    /\ NoBacktester
    /\ InitAux
    /\ \E odds_a \in QuotedOdds, odds_b \in QuotedOdds, method \in VigMethods :
          call = [op |-> "caller",
                  prob_a |-> american_to_probability(odds_a),
                  prob_b |-> american_to_probability(odds_b),
                  method |-> method]

RemoveVig ==
    /\ pc = "none"
    /\ call.op = "caller"
    /\ call' = [call EXCEPT !.op = "remove_vig"]
    /\ ret' = remove_vig(call.prob_a, call.prob_b, call.method)
    /\ UNCHANGED <<bankroll, runVars, auxVars>>

NextVig == RemoveVig

SpecVig == InitVig /\ [][NextVig]_vars

\* ------------------------------------------- strategy/bet_sizing.py called
\* A caller sizes one wager: every method, probabilities over the whole of
\* [0, 1], prices on both sides of even money, an empty, a small and a
\* large bankroll, with and without a cap in dollars.
StakeProbabilities == {R(0), Rat(1, 4), Rat(11, 20), Rat(3, 4), R(1)}

StakeOdds == {-200, -110, 100, 150}

StakeBankrolls == {R(0), R(100), R(1000)}

StakeCaps == {None, Some(R(5)), Some(R(30))}

\* The caller has chosen the arguments and not yet made the call.
InitStake ==
    /\ bankroll = None
    /\ ret = None
    /\ NoBacktester
    /\ InitAux
    /\ \E probability \in StakeProbabilities, american_odds \in StakeOdds,
          bankroll_amount \in StakeBankrolls,
          method \in {"flat", "kelly", "fractional_kelly"},
          flat_percentage \in {Rat(1, 100), Rat(10, 100)},
          max_bet_amount \in StakeCaps :
          call = [op |-> "caller", probability |-> probability,
                  american_odds |-> american_odds, bankroll |-> bankroll_amount,
                  method |-> method, kelly_fraction |-> Rat(25, 100),
                  flat_percentage |-> flat_percentage,
                  max_bet_percentage |-> Rat(5, 100),
                  min_bet_amount |-> R(10), max_bet_amount |-> max_bet_amount]

CalculateStake ==
    /\ pc = "none"
    /\ call.op = "caller"
    /\ call' = [call EXCEPT !.op = "calculate_stake"]
    /\ ret' = calculate_stake(call.probability, call.american_odds, call.bankroll,
                              call.method, call.kelly_fraction, call.flat_percentage,
                              call.max_bet_percentage, call.min_bet_amount,
                              call.max_bet_amount)
    /\ UNCHANGED <<bankroll, runVars, auxVars>>

NextStake == CalculateStake

SpecStake == InitStake /\ [][NextStake]_vars

\* ------------------------------------------- strategy/ev_strategy.py called
\* A caller looks for opportunities in one game: each pair of quoted
\* moneyline prices, a model probability for the home side, thresholds with
\* and without room between them, each vig policy, with and without a
\* cover probability for the spread market.
EvProbabilities == {Rat(1, 4), Rat(1, 2), Rat(11, 20), Rat(3, 5), Rat(3, 4)}

InitFindEv ==
    /\ bankroll = None
    /\ ret = None
    /\ NoBacktester
    /\ InitAux
    /\ \E moneyline_home \in QuotedOdds, moneyline_away \in QuotedOdds,
          win_prob \in EvProbabilities, cover_prob \in {None, Some(Rat(11, 20))},
          min_ev \in {R(0), Rat(2, 100)}, min_edge \in {Rat(1, 100), Rat(1, 10)},
          vig_method \in VigMethods :
          call = [op |-> "caller",
                  game |-> [game_id |-> "G1", home_team |-> "BOS", away_team |-> "LAL",
                            moneyline_home |-> moneyline_home,
                            moneyline_away |-> moneyline_away,
                            spread |-> -3, spread_odds_home |-> -110,
                            spread_odds_away |-> -110],
                  home_win_prob |-> win_prob, home_cover_prob |-> cover_prob,
                  min_ev |-> min_ev, min_edge |-> min_edge, vig_method |-> vig_method]

FindEvOpportunities ==
    /\ pc = "none"
    /\ call.op = "caller"
    /\ call' = [call EXCEPT !.op = "find_ev_opportunities"]
    /\ ret' = find_ev_opportunities(call.game, call.home_win_prob, call.home_cover_prob,
                                    call.min_ev, call.min_edge, call.vig_method)
    /\ UNCHANGED <<bankroll, runVars, auxVars>>

NextFindEv == FindEvOpportunities

SpecFindEv == InitFindEv /\ [][NextFindEv]_vars

\* ------------------------------------------- models/elo_model.py called
\* A caller holds an EloModel with some ratings and feeds it completed
\* games between two of three teams; a team may have no rating yet.
EloTeams == {"BOS", "LAL", "NYK"}

EloRatings ==
    { EmptyDict,
      [team \in {"NYK"} |-> R(1600)],
      [team \in {"BOS", "NYK"} |-> IF team = "BOS" THEN R(1650) ELSE R(1450)],
      [team \in EloTeams |-> IF team = "BOS" THEN R(1500)
                             ELSE IF team = "LAL" THEN R(1400) ELSE R(1600)] }

EloOutcomes ==
    { [home_won |-> TRUE, margin |-> 5],
      [home_won |-> FALSE, margin |-> -7],
      [home_won |-> TRUE, margin |-> 12] }

EloGames ==
    { game_row \in
        { [game_id |-> "G", date |-> <<1, 19>>, home_team |-> home_team,
           away_team |-> away_team, home_won |-> outcome.home_won,
           margin |-> outcome.margin] :
            home_team \in EloTeams, away_team \in EloTeams, outcome \in EloOutcomes } :
        game_row.home_team # game_row.away_team }

InitElo ==
    /\ bankroll = None
    /\ call = [op |-> "init"]
    /\ ret = None
    /\ config = None
    /\ \E ratings \in EloRatings :
          model = [EloModel_init(R(20), R(100), R(1500), Rat(3, 4))
                       EXCEPT !.ratings = ratings, !.is_fitted = TRUE]
    /\ counters = Backtester_counters
    /\ games = <<>>
    /\ pc = "none"
    /\ i = 0
    /\ home_win_prob = None
    /\ opportunities = <<>>
    /\ warnings = <<>>
    /\ raised = ""
    /\ results = None
    /\ InitAux

EloUpdate ==
    /\ pc = "none"
    /\ Len(model.rating_history) < MaxUpdates
    /\ \E game_row \in EloGames :
          /\ call' = [op |-> "update", game_row |-> game_row]
          /\ model' = EloModel_update(model, game_row)
    /\ UNCHANGED <<bankroll, ret, config, counters, games, pc, i, home_win_prob,
                   opportunities, warnings, raised, results>>
    /\ UNCHANGED auxVars

NextElo == EloUpdate

SpecElo == InitElo /\ [][NextElo]_vars

\* ------------------------------------------- spread wagers
\* run gives find_ev_opportunities no cover probability, so it places no
\* spread wager itself.  Here a caller that has a cover probability hands
\* the opportunities find_spread_opportunities returns for a finished game
\* to Backtester._place_bet_for_opportunity, which sizes, places and
\* settles them as it does the moneyline ones.  The line is the home
\* team's; the margin is home score less away score.
SpreadGames ==
    { [game_id |-> game_id, date |-> <<1, 19>>, home_team |-> "BOS", away_team |-> "LAL",
       margin |-> result.margin, spread |-> result.spread,
       spread_odds_home |-> -110, spread_odds_away |-> -110] :
        game_id \in {"G1", "G2"},
        result \in { [spread |-> -3, margin |-> 3], [spread |-> -3, margin |-> 7],
                     [spread |-> -3, margin |-> -2], [spread |-> 5, margin |-> -5],
                     [spread |-> 5, margin |-> -9] } }

InitSpread ==
    /\ config \in Configs
    /\ model = config.model
    /\ bankroll = Backtester_init(config)
    /\ counters = Backtester_counters
    /\ games = <<>>
    /\ pc = "constructed"
    /\ i = 0
    /\ home_win_prob = None
    /\ opportunities = <<>>
    /\ warnings = <<>>
    /\ raised = ""
    /\ results = None
    /\ call = [op |-> "init"]
    /\ ret = None
    /\ InitAux

\* _place_bet_for_opportunity(game, opp); `previous` keeps the ledger as it
\* was when the call was made.
PlaceSpreadWager ==
    /\ pc = "constructed"
    /\ counters.bets_attempted < MaxSpreadWagers
    /\ \E game \in SpreadGames, home_cover_prob \in {Rat(2, 5), Rat(3, 5)} :
         \E found \in { find_spread_opportunities(game, home_cover_prob,
                            RSub(R(1), home_cover_prob), config.min_ev, config.min_edge,
                            config.vig_method) } :
         \E opp \in { found[k] : k \in DOMAIN found } :
         \E r \in {place_bet_for_opportunity(config, bankroll, counters, game, opp)} :
            /\ call' = [op |-> "_place_bet_for_opportunity", game |-> game, opp |-> opp]
            /\ bankroll' = r.bankroll
            /\ counters' = r.counters
            /\ raised' = r.raised
    /\ previous' = Some(bankroll)
    /\ UNCHANGED <<ret, config, model, games, pc, i, home_win_prob, opportunities,
                   warnings, results, assessed, np_random>>

NextSpread == PlaceSpreadWager

SpecSpread == InitSpread /\ [][NextSpread]_vars

\* ------------------------------------------- run executed a second time
\* run(games) is called, and when it has returned or raised it is executed
\* once more on the same event list with the same configuration and a
\* model in the initial state -- by a new Backtester or by the same one,
\* whose ledger and counters then still hold what the first execution left.
\* `call` keeps the list run was given, `previous` what the first
\* execution produced.
InitTwice ==
    /\ config \in Configs
    /\ games \in GameLists
    /\ Len(games) <= MaxTwiceGames
    /\ model = config.model
    /\ bankroll = Backtester_init(config)
    /\ counters = Backtester_counters
    /\ pc = "run"
    /\ i = 0
    /\ home_win_prob = None
    /\ opportunities = <<>>
    /\ warnings = <<>>
    /\ raised = ""
    /\ results = None
    /\ call = [op |-> "run", games |-> games]
    /\ ret = None
    /\ InitAux

Again ==
    /\ pc \in {"complete", "raised"}
    /\ previous = None
    /\ previous' = Some([bet_history |-> bankroll.bet_history, counters |-> counters,
                         warnings |-> warnings, raised |-> raised, results |-> results])
    /\ \E same_object \in BOOLEAN :
          /\ bankroll' = IF same_object THEN bankroll ELSE Backtester_init(config)
          /\ counters' = IF same_object THEN counters ELSE Backtester_counters
    /\ model' = config.model
    /\ games' = call.games
    /\ pc' = "run"
    /\ i' = 0
    /\ home_win_prob' = None
    /\ opportunities' = <<>>
    /\ warnings' = <<>>
    /\ raised' = ""
    /\ results' = None
    /\ UNCHANGED <<call, ret, config, assessed, np_random>>

NextTwice ==
    \/ NextRun
    \/ Again

SpecTwice == InitTwice /\ [][NextTwice]_vars

\* ----------------------------- run called again on the same Backtester
\* run(games) has returned or raised and is called once more on the same
\* Backtester with the list it was first given: the ledger, the counters and
\* the model are the objects the first call left behind, and run itself
\* resets what it resets (Begin, Fit).
RunAgainOnSameInstance ==
    /\ pc \in {"complete", "raised"}
    /\ previous = None
    /\ previous' = Some([bet_history |-> bankroll.bet_history, counters |-> counters,
                         warnings |-> warnings, raised |-> raised, results |-> results])
    /\ games' = call.games
    /\ pc' = "run"
    /\ i' = 0
    /\ home_win_prob' = None
    /\ opportunities' = <<>>
    /\ warnings' = <<>>
    /\ raised' = ""
    /\ results' = None
    /\ UNCHANGED <<bankroll, counters, model, call, ret, config, assessed, np_random>>

NextSameInstance ==
    \/ NextRun
    \/ RunAgainOnSameInstance

SpecSameInstance == InitTwice /\ [][NextSameInstance]_vars

\* ------------------------------------------ models/enhanced_elo_model.py
InjuryImpact(player_name, position, impact_level, elo_adjustment) ==
    [player_name |-> player_name, position |-> position,
     impact_level |-> impact_level, elo_adjustment |-> elo_adjustment]

STAR_PLAYER_INJURY(name, pos) == InjuryImpact(name, pos, "star", R(65))

ROTATION_INJURY(name, pos) == InjuryImpact(name, pos, "rotation", R(10))

TeamForm(last_5_record, last_10_record, point_diff_l5, point_diff_l10, streak) ==
    [last_5_record |-> last_5_record, last_10_record |-> last_10_record,
     point_diff_l5 |-> point_diff_l5, point_diff_l10 |-> point_diff_l10,
     streak |-> streak]

EnhancedEloModel_init(k_factor, home_advantage, regression_factor, form_weight, injury_weight) ==
    [type |-> "EnhancedElo",
     k_factor |-> k_factor, home_advantage |-> home_advantage,
     regression_factor |-> regression_factor, form_weight |-> form_weight,
     injury_weight |-> injury_weight,
     ratings |-> EmptyDict, default_rating |-> R(1500),
     team_form |-> EmptyDict, recent_games |-> EmptyDict, injuries |-> EmptyDict]

get_rating(M, team) == Get(M.ratings, team, M.default_rating)

\* The loop "total_adjustment += injury.elo_adjustment".
RECURSIVE total_elo_adjustment(_)
total_elo_adjustment(injury_list) ==
    IF injury_list = <<>> THEN R(0)
    ELSE RAdd(Head(injury_list).elo_adjustment, total_elo_adjustment(Tail(injury_list)))

\* Reads the injuries stored on the model, whoever stored them and when.
calculate_injury_adjustment(M, team) ==
    IF team \notin DOMAIN M.injuries THEN R(0)
    ELSE RMul(total_elo_adjustment(M.injuries[team]), M.injury_weight)

calculate_form_adjustment(M, team) ==
    IF team \notin DOMAIN M.team_form THEN R(0)
    ELSE LET form == M.team_form[team]
             sign == IF form.streak > 0 THEN 1 ELSE -1
             streak_adj ==
                 IF Abs(form.streak) >= 4
                 THEN (IF Abs(form.streak) * 8 < 40 THEN Abs(form.streak) * 8 ELSE 40) * sign
                 ELSE IF Abs(form.streak) >= 2
                 THEN (IF Abs(form.streak) * 5 < 20 THEN Abs(form.streak) * 5 ELSE 20) * sign
                 ELSE 0
             diff_adj ==
                 IF RGt(form.point_diff_l5, R(10)) \/ RLt(form.point_diff_l5, R(-10))
                 THEN RMin(R(30), RMul(form.point_diff_l5, R(2)))
                 ELSE R(0)
         IN  RMul(RAdd(RMul(R(streak_adj), Rat(6, 10)), RMul(diff_adj, Rat(4, 10))),
                  M.form_weight)

calculate_rest_adjustment(days_rest, is_back_to_back, travel_distance) ==
    R((IF is_back_to_back THEN -40 ELSE 0)
      + (IF days_rest = 0 THEN -30
         ELSE IF days_rest = 1 THEN -15
         ELSE IF days_rest >= 3 THEN 7 ELSE 0)
      + (IF travel_distance > 2000 THEN -10
         ELSE IF travel_distance > 1000 THEN -5 ELSE 0))

elite_home ==
    {"Golden State Warriors", "Boston Celtics", "Denver Nuggets", "Miami Heat",
     "Milwaukee Bucks"}

calculate_home_advantage(M, home_team, is_playoff) ==
    RAdd(IF is_playoff THEN RMul(M.home_advantage, Rat(12, 10)) ELSE M.home_advantage,
         IF home_team \in elite_home THEN R(15) ELSE R(0))

\* "if home_injuries:" is false for None and for an empty list alike (both
\* are <<>> here); a non-empty list is stored on the model before it is
\* read back by calculate_injury_adjustment.  The result carries the model
\* with what the call stored, the local elo_diff and the returned value.
predict_win_probability(M, home_team, away_team, home_injuries, away_injuries, home_rest_days, away_rest_days, home_back_to_back, away_back_to_back, is_playoff) ==
    LET M1 == IF home_injuries # <<>>
              THEN [M EXCEPT !.injuries = Put(@, home_team, home_injuries)] ELSE M
        home_elo1 == IF home_injuries # <<>>
                     THEN RSub(get_rating(M, home_team), calculate_injury_adjustment(M1, home_team))
                     ELSE get_rating(M, home_team)
        M2 == IF away_injuries # <<>>
              THEN [M1 EXCEPT !.injuries = Put(@, away_team, away_injuries)] ELSE M1
        away_elo1 == IF away_injuries # <<>>
                     THEN RSub(get_rating(M, away_team), calculate_injury_adjustment(M2, away_team))
                     ELSE get_rating(M, away_team)
        home_elo == RAdd(RAdd(home_elo1, calculate_form_adjustment(M2, home_team)),
                         calculate_rest_adjustment(home_rest_days, home_back_to_back, 0))
        away_elo == RAdd(RAdd(away_elo1, calculate_form_adjustment(M2, away_team)),
                         calculate_rest_adjustment(away_rest_days, away_back_to_back, 0))
        elo_diff == RSub(RAdd(home_elo, calculate_home_advantage(M2, home_team, is_playoff)),
                         away_elo)
    IN  [model |-> M2, elo_diff |-> elo_diff, value |-> EloExpected(elo_diff)]

\* The loop over reversed(recent_games) that counts the current streak,
\* entered at the last game with streak 0.
RECURSIVE count_streak(_, _, _)
count_streak(recent_games, k, streak) ==
    IF k = 0 THEN streak
    ELSE IF recent_games[k].won
    THEN (IF streak >= 0 THEN count_streak(recent_games, k - 1, streak + 1) ELSE streak)
    ELSE (IF streak <= 0 THEN count_streak(recent_games, k - 1, streak - 1) ELSE streak)

\* recent_games[-n:]
LastGames(recent_games, n) ==
    IF Len(recent_games) >= n
    THEN SubSeq(recent_games, Len(recent_games) - n + 1, Len(recent_games))
    ELSE recent_games

update_team_form(M, team, recent_games) ==
    IF recent_games = <<>> THEN M
    ELSE LET last_5 == LastGames(recent_games, 5)
             last_10 == LastGames(recent_games, 10)
             l5_wins == Cardinality({k \in DOMAIN last_5 : last_5[k].won})
             l10_wins == Cardinality({k \in DOMAIN last_10 : last_10[k].won})
         IN  [M EXCEPT !.team_form = Put(@, team,
                 TeamForm(<<l5_wins, Len(last_5) - l5_wins>>,
                          <<l10_wins, Len(last_10) - l10_wins>>,
                          np_mean([k \in DOMAIN last_5 |-> R(last_5[k].point_diff)]),
                          np_mean([k \in DOMAIN last_10 |-> R(last_10[k].point_diff)]),
                          count_streak(recent_games, Len(recent_games), 0)))]

\* kwargs is the dict of keyword arguments; a key the caller left out takes
\* the default of kwargs.get.
get_adjustment_breakdown(M, home_team, away_team, kwargs) ==
    LET home_base == get_rating(M, home_team)
        away_base == get_rating(M, away_team)
        home_injury == RNeg(calculate_injury_adjustment(M, home_team))
        away_injury == RNeg(calculate_injury_adjustment(M, away_team))
        home_form == calculate_form_adjustment(M, home_team)
        away_form == calculate_form_adjustment(M, away_team)
        home_rest == calculate_rest_adjustment(Get(kwargs, "home_rest_days", 2),
                                               Get(kwargs, "home_back_to_back", FALSE), 0)
        away_rest == calculate_rest_adjustment(Get(kwargs, "away_rest_days", 2),
                                               Get(kwargs, "away_back_to_back", FALSE), 0)
        home_adv == calculate_home_advantage(M, home_team, Get(kwargs, "is_playoff", FALSE))
        home_final == RAdd(RAdd(RAdd(RAdd(home_base, home_injury), home_form), home_rest),
                           home_adv)
        away_final == RAdd(RAdd(RAdd(away_base, away_injury), away_form), away_rest)
    IN  [home_base_elo |-> home_base, away_base_elo |-> away_base,
         home_injury_adj |-> home_injury, away_injury_adj |-> away_injury,
         home_form_adj |-> home_form, away_form_adj |-> away_form,
         home_rest_adj |-> home_rest, away_rest_adj |-> away_rest,
         home_court_adv |-> home_adv,
         home_final_elo |-> home_final, away_final_elo |-> away_final,
         elo_difference |-> RSub(home_final, away_final)]

\* ------------------------------- a caller driving the enhanced Elo model
EnhancedTeams == {"Boston Celtics", "Los Angeles Lakers"}

EnhancedRatings ==
    { EmptyDict,
      [team \in EnhancedTeams |-> IF team = "Boston Celtics" THEN R(1600) ELSE R(1450)] }

\* The injury lists a caller passes: none (None or an empty list), one star
\* player, two rotation players.
InjuryLists ==
    { <<>>,
      <<STAR_PLAYER_INJURY("A", "G")>>,
      <<ROTATION_INJURY("B", "F"), ROTATION_INJURY("C", "C")>> }

\* The rest, back-to-back and playoff keyword arguments a caller passes:
\* none of them, a tired home side, a playoff game with a tired away side.
Contexts ==
    { EmptyDict,
      [home_rest_days |-> 0, away_rest_days |-> 3, home_back_to_back |-> TRUE,
       away_back_to_back |-> FALSE, is_playoff |-> FALSE],
      [home_rest_days |-> 2, away_rest_days |-> 1, home_back_to_back |-> FALSE,
       away_back_to_back |-> TRUE, is_playoff |-> TRUE] }

\* The recent results handed to update_team_form: none, or a loss followed
\* by five wins by twelve.
RecentGames ==
    { <<>>,
      [k \in 1..6 |-> [won |-> (k > 1), point_diff |-> IF k > 1 THEN 12 ELSE -3]] }

InitEnhanced ==
    /\ bankroll = None
    /\ call = [op |-> "init"]
    /\ ret = None
    /\ config = None
    /\ \E ratings \in EnhancedRatings :
          model = [EnhancedEloModel_init(R(20), R(100), Rat(1, 4), Rat(15, 100), R(1))
                       EXCEPT !.ratings = ratings]
    /\ counters = Backtester_counters
    /\ games = <<>>
    /\ pc = "none"
    /\ i = 0
    /\ home_win_prob = None
    /\ opportunities = <<>>
    /\ warnings = <<>>
    /\ raised = ""
    /\ results = None
    /\ InitAux

PredictWinProbability ==
    /\ pc = "none"
    /\ \E home_team \in EnhancedTeams, away_team \in EnhancedTeams, home_injuries \in InjuryLists, away_injuries \in InjuryLists, kwargs \in Contexts :
          /\ home_team # away_team
          /\ \E r \in {predict_win_probability(model, home_team, away_team,
                           home_injuries, away_injuries,
                           Get(kwargs, "home_rest_days", 2), Get(kwargs, "away_rest_days", 2),
                           Get(kwargs, "home_back_to_back", FALSE),
                           Get(kwargs, "away_back_to_back", FALSE),
                           Get(kwargs, "is_playoff", FALSE))} :
                /\ call' = [op |-> "predict_win_probability", home_team |-> home_team,
                            away_team |-> away_team, home_injuries |-> home_injuries,
                            away_injuries |-> away_injuries, kwargs |-> kwargs,
                            elo_diff |-> r.elo_diff]
                /\ model' = r.model
                /\ ret' = Some(r.value)
    /\ UNCHANGED <<bankroll, config, counters, games, pc, i, home_win_prob,
                   opportunities, warnings, raised, results>>
    /\ UNCHANGED auxVars

UpdateTeamForm ==
    /\ pc = "none"
    /\ \E team \in EnhancedTeams, recent_games \in RecentGames :
          /\ call' = [op |-> "update_team_form", team |-> team,
                      recent_games |-> recent_games]
          /\ model' = update_team_form(model, team, recent_games)
          /\ ret' = None
    /\ UNCHANGED <<bankroll, config, counters, games, pc, i, home_win_prob,
                   opportunities, warnings, raised, results>>
    /\ UNCHANGED auxVars

GetAdjustmentBreakdown ==
    /\ pc = "none"
    /\ \E home_team \in EnhancedTeams, away_team \in EnhancedTeams, kwargs \in Contexts :
          /\ home_team # away_team
          /\ call' = [op |-> "get_adjustment_breakdown", home_team |-> home_team,
                      away_team |-> away_team, kwargs |-> kwargs]
          /\ ret' = Some(get_adjustment_breakdown(model, home_team, away_team, kwargs))
    /\ UNCHANGED <<bankroll, model, config, counters, games, pc, i, home_win_prob,
                   opportunities, warnings, raised, results>>
    /\ UNCHANGED auxVars

NextEnhanced ==
    \/ PredictWinProbability
    \/ UpdateTeamForm
    \/ GetAdjustmentBreakdown

SpecEnhanced == InitEnhanced /\ [][NextEnhanced]_vars

\* =================================================== claims on the ledger
RECURSIVE StakeSum(_, _)
StakeSum(history, game_id) ==
    IF history = <<>> THEN R(0)
    ELSE LET rest == StakeSum(Tail(history), game_id)
         IN  IF Head(history).game_id = game_id
             THEN RAdd(Head(history).stake, rest) ELSE rest

BetsOnDay(day) ==
    {n \in DOMAIN bankroll.bet_history :
        strftime_ymd(bankroll.bet_history[n].date) = day}

Days == {strftime_ymd(o.date) : o \in Orders}

PlaceStep == call'.op = "place_bet"
SettleStep == call'.op = "settle_bet"

\* C2: after any settlement of a wager returned by place_bet, won or lost
\* and in any order, current_bankroll is not negative.
C2_NonNegativeAfterSettlement ==
    call.op = "settle_bet" => RGe(bankroll.current_bankroll, R(0))

C2_Witness ==
    /\ call.op = "settle_bet"
    /\ ~call.won
    /\ Len(bankroll.bet_history) = 2
    /\ \A n \in 1..2 : bankroll.bet_history[n].won = Some(FALSE)
    /\ RLt(bankroll.current_bankroll, bankroll.initial_bankroll)

\* C3: place_bet accepts a wager on an event only if the stakes of all
\* wagers accepted on that event before, settled or not, plus the new stake
\* are at most max_game_exposure x the bankroll at the time of placement.
C3_ExposureCap ==
    [][(PlaceStep /\ ret' # None) =>
          RLe(RAdd(StakeSum(bankroll.bet_history, call'.game_id), call'.stake),
              RMul(bankroll.max_game_exposure, bankroll.current_bankroll))]_vars

C3_Witness ==
    /\ call.op = "place_bet"
    /\ ret = None
    /\ call.check = <<FALSE, "Game exposure exceeds limit">>
    /\ RGt(RAdd(StakeSum(bankroll.bet_history, call.game_id), call.stake),
           RMul(bankroll.max_game_exposure, bankroll.current_bankroll))

\* C4: a stake above max_bet_percentage x current bankroll is denied by a
\* returned value: can_place_bet returns (False, non-empty reason) and
\* place_bet returns None.
C4_OverPercentageDenied ==
    [][(PlaceStep /\ RGt(call'.stake,
                         RMul(bankroll.max_bet_percentage, bankroll.current_bankroll)))
          => (/\ call'.check[1] = FALSE
              /\ call'.check[2] # ""
              /\ ret' = None)]_vars

C4_Witness ==
    /\ call.op = "place_bet"
    /\ call.stake = R(60)
    /\ bankroll.current_bankroll = R(1000)
    /\ call.check = <<FALSE, "Stake exceeds max bet size">>
    /\ ret = None

\* C5: the number of wagers accepted for any one calendar date never
\* exceeds max_daily_bets.
C5_DailyLimit ==
    \A day \in Days : Cardinality(BetsOnDay(day)) <= bankroll.max_daily_bets

C5_Witness ==
    /\ call.op = "place_bet"
    /\ ret = None
    /\ call.check = <<FALSE, "Daily bet limit reached">>
    /\ \E day \in Days : Cardinality(BetsOnDay(day)) = bankroll.max_daily_bets
    /\ \E m, n \in DOMAIN bankroll.bet_history :
          /\ bankroll.bet_history[m].date # bankroll.bet_history[n].date
          /\ strftime_ymd(bankroll.bet_history[m].date)
                = strftime_ymd(bankroll.bet_history[n].date)

\* C6: a place_bet call that returns None leaves every field of the ledger
\* as it was (bankroll, peak, drawdowns, history, per-date counts, per-event
\* exposure, next bet id).
C6_RejectionLeavesLedgerUnchanged ==
    [][(PlaceStep /\ ret' = None) => bankroll' = bankroll]_vars

C6_Witness ==
    /\ call.op = "place_bet"
    /\ ret = None
    /\ Len(bankroll.bet_history) > 0
    /\ bankroll.next_bet_id = Len(bankroll.bet_history) + 1

\* C7: a settle_bet call on a wager that is already settled changes neither
\* the wager's won/payout/profit/bankroll_after nor the ledger's current
\* bankroll, peak or drawdown.
C7_SettledWagerImmutable ==
    [][(SettleStep /\ bankroll.bet_history[call'.bet].won # None) =>
          /\ bankroll'.bet_history[call'.bet] = bankroll.bet_history[call'.bet]
          /\ bankroll'.current_bankroll = bankroll.current_bankroll
          /\ bankroll'.peak_bankroll = bankroll.peak_bankroll
          /\ bankroll'.current_drawdown = bankroll.current_drawdown
          /\ bankroll'.max_drawdown = bankroll.max_drawdown]_vars

\* C8: settle_bet sets profit = calculate_profit(stake, odds) and payout =
\* stake + profit on a win, profit = -stake and payout = 0 on a loss, sets
\* bankroll_after = bankroll_before + profit and makes current_bankroll equal
\* to that bankroll_after.
C8_SettlementAmounts ==
    [][SettleStep =>
          LET old == bankroll.bet_history[call'.bet]
              new == bankroll'.bet_history[call'.bet]
              profit == IF call'.won THEN calculate_profit(old.stake, old.odds)
                                     ELSE RNeg(old.stake)
              payout == IF call'.won THEN RAdd(old.stake, profit) ELSE R(0)
          IN  /\ new.won = Some(call'.won)
              /\ new.profit = Some(profit)
              /\ new.payout = Some(payout)
              /\ new.bankroll_after = Some(RAdd(old.bankroll_before, profit))
              /\ bankroll'.current_bankroll = RAdd(old.bankroll_before, profit)]_vars

C8_Witness ==
    /\ call.op = "settle_bet"
    /\ call.won
    /\ Len(bankroll.bet_history) = 2
    /\ \A n \in 1..2 :
          /\ bankroll.bet_history[n].won = Some(TRUE)
          /\ bankroll.bet_history[n].bankroll_before = bankroll.initial_bankroll
    /\ bankroll.bet_history[call.bet].odds = -200
    /\ bankroll.bet_history[call.bet].profit = Some(R(25))
    /\ bankroll.current_bankroll = R(1025)

\* C9: the peak starts at the initial bankroll and after every settle_bet is
\* the larger of the old peak and the new bankroll, so it is the maximum of
\* the initial and all post-settlement bankrolls and is >= current;
\* current_drawdown = (peak - current)/peak; max_drawdown starts at 0 and
\* after every settle_bet is the larger of its old value and the new
\* current_drawdown; no other call changes peak or max_drawdown.
C9_PeakAndDrawdown ==
    /\ bankroll.peak_bankroll = bankroll.initial_bankroll
    /\ bankroll.max_drawdown = R(0)
    /\ [][/\ SettleStep =>
               /\ RGe(bankroll'.peak_bankroll, bankroll'.current_bankroll)
               /\ bankroll'.peak_bankroll
                     = RMax(bankroll.peak_bankroll, bankroll'.current_bankroll)
               /\ bankroll'.current_drawdown
                     = RDiv(RSub(bankroll'.peak_bankroll, bankroll'.current_bankroll),
                            bankroll'.peak_bankroll)
               /\ bankroll'.max_drawdown
                     = RMax(bankroll.max_drawdown, bankroll'.current_drawdown)
               /\ RGe(bankroll'.max_drawdown, bankroll.max_drawdown)
          /\ ~SettleStep =>
               /\ bankroll'.peak_bankroll = bankroll.peak_bankroll
               /\ bankroll'.max_drawdown = bankroll.max_drawdown]_vars

C9_Witness ==
    /\ call.op = "settle_bet"
    /\ RGt(bankroll.peak_bankroll, bankroll.initial_bankroll)
    /\ RGt(bankroll.current_drawdown, R(0))
    /\ RLt(bankroll.current_drawdown, bankroll.max_drawdown)

\* =================================================== claims on the run
\* The games whose outcomes have shaped the state predict_proba reads: for
\* the Elo model the updates recorded in rating_history (fit clears the
\* ratings and the history together, update changes them together), for
\* the logistic model the rows the regression was last trained on.
ModelInformation(M) ==
    IF M.type = "Elo"
    THEN {M.rating_history[k].game_id : k \in DOMAIN M.rating_history}
    ELSE IF M.model = None THEN {}
    ELSE {M.model[1][k].game_id : k \in DOMAIN M.model[1]}

PrecedingGames == {games[k].game_id : k \in 1..(i - 1)}

\* C1: whenever run has just called predict_proba for the game at position
\* i, the model state it read had been shaped only by the outcomes of games
\* at positions before i -- never by game i itself or by a later game.
C1_NoLookahead ==
    (pc = "predicted") => ModelInformation(model) \subseteq PrecedingGames

\* C10: when predict_proba raises for the game run has reached, the very
\* step that calls it catches the exception: run lets nothing through, no
\* opportunity is produced, the ledger (hence every wager) and the bet
\* counters stay as they were, the model is not updated, a warning names
\* the game, and run moves on to the next position; a run that completes
\* has counted every game of the list as processed.
PredictRaises ==
    /\ pc = "loop"
    /\ i <= Len(games)
    /\ Model_predict_proba(model, games[i]).raised # ""

C10_PredictionFailureSkipsEvent ==
    /\ [][PredictRaises =>
            /\ pc' = "loop"
            /\ i' = i + 1
            /\ raised' = ""
            /\ model' = model
            /\ bankroll' = bankroll
            /\ opportunities' = <<>>
            /\ counters' = [counters EXCEPT !.games_processed = @ + 1]
            /\ warnings' = Append(warnings, games[i].game_id)]_vars
    /\ [](pc = "complete" => counters.games_processed = Len(games))

\* A completed run in which the prediction failed for a game that was not
\* the last one: the failed game left no wager and no training row, the
\* game after it was learnt by the model, and all games were counted.
C10_Witness ==
    /\ pc = "complete"
    /\ warnings # <<>>
    /\ model.type = "Logistic"
    /\ counters.games_processed = Len(games)
    /\ \E k \in 1..(Len(games) - 1) :
          /\ games[k].game_id = warnings[1]
          /\ \A n \in DOMAIN bankroll.bet_history :
                bankroll.bet_history[n].game_id # games[k].game_id
          /\ \A n \in DOMAIN model.training_data :
                model.training_data[n].game_id # games[k].game_id
          /\ \E n \in DOMAIN model.training_data :
                model.training_data[n].game_id = games[k + 1].game_id

\* C11: when the model's update raises for the game run has reached, the
\* step that calls it catches the exception: run lets nothing through and
\* moves on to the next position.
UpdateRaises ==
    /\ pc = "bets"
    /\ opportunities = <<>>
    /\ Model_update(model, games[i]).raised # ""

C11_UpdateFailureSkipsEvent ==
    [][UpdateRaises => (raised' = "" /\ pc' = "loop" /\ i' = i + 1)]_vars

C13_SeededSimulationReproducible ==
    (/\ call.op = "simulate_betting_outcomes"
     /\ call.seed # None) =>
        /\ raised = ""
        /\ ret # None
        /\ (previous # None /\ previous[1].call = call) => ret = previous[1].ret

\* C14: whichever of the four policies is named, two equal implied
\* probabilities that sum to more than 1 come back as (0.5, 0.5).
C14_EqualInputsGiveEvenPair ==
    (/\ call.op = "remove_vig"
     /\ call.prob_a = call.prob_b
     /\ RGt(RAdd(call.prob_a, call.prob_b), R(1))) =>
        ret = <<Rat(1, 2), Rat(1, 2)>>

\* C15: the stake calculate_stake returns is at most the bankroll times
\* max_bet_percentage, at most max_bet_amount when one is given, and is
\* either 0 or at least min_bet_amount.
C15_StakeWithinLimits ==
    (call.op = "calculate_stake") =>
        /\ ret # None
        /\ RLe(ret[1], RMul(call.bankroll, call.max_bet_percentage))
        /\ (call.max_bet_amount # None => RLe(ret[1], call.max_bet_amount[1]))
        /\ (ret[1] = R(0) \/ RGe(ret[1], call.min_bet_amount))

\* Full Kelly asks for more than both caps allow and the dollar cap, the
\* tighter one, is what comes back.
C15_Witness ==
    /\ call.op = "calculate_stake"
    /\ call.method = "kelly"
    /\ call.max_bet_amount = Some(R(30))
    /\ RGt(calculate_kelly_stake(call.probability, call.american_odds, call.bankroll),
           RMul(call.bankroll, call.max_bet_percentage))
    /\ ret = Some(R(30))

\* The expected profit per unit staked: the probability times the net
\* decimal price, less the probability of losing the unit.
EvFraction(model_prob, american_odds) ==
    RSub(RMul(model_prob, RSub(american_to_decimal(american_odds), R(1))),
         RSub(R(1), model_prob))

Emitted(opps, bet_type) == \E k \in 1..Len(opps) : opps[k].bet_type = bet_type

StakeComputed ==
    /\ pc = "bets"
    /\ opportunities # <<>>
    /\ counters'.bets_attempted = counters.bets_attempted + 1

\* C17: in run, a stake is computed only for an opportunity that
\* reality_check_ev_opportunity has assessed before.
C17_AssessedBeforeSizing ==
    [][StakeComputed => Head(opportunities) \in assessed]_vars

\* The rating a team has before an update: the one stored, or the initial
\* rating when none is.
RatingBefore(team) == Get(model.ratings, team, model.initial_rating)

\* c = K * movMultiplier * (actual - expected) for the game about to be
\* applied, expected coming from the ratings before the update.
RatingChange(game_row) ==
    RMul(RMul(model.k_factor,
              get_mov_multiplier(game_row.margin,
                  RAdd(RSub(RatingBefore(game_row.home_team),
                            RatingBefore(game_row.away_team)), model.home_advantage))),
         RSub(IF game_row.home_won THEN R(1) ELSE R(0),
              EloExpected(RAdd(RSub(RatingBefore(game_row.home_team),
                                    RatingBefore(game_row.away_team)),
                               model.home_advantage))))

\* C18: an update for a game between two distinct teams moves the home
\* rating by +c and the away rating by -c, c being the one rating change
\* computed from the ratings before, and leaves every other team's rating
\* as it was (no rating appears or disappears for another team).
C18_UpdateIsZeroSum ==
    [][(call'.op = "update" /\ call'.game_row.home_team # call'.game_row.away_team) =>
         /\ model'.ratings[call'.game_row.home_team] =
              RAdd(RatingBefore(call'.game_row.home_team), RatingChange(call'.game_row))
         /\ model'.ratings[call'.game_row.away_team] =
              RSub(RatingBefore(call'.game_row.away_team), RatingChange(call'.game_row))
         /\ DOMAIN model'.ratings =
              DOMAIN model.ratings \cup {call'.game_row.home_team, call'.game_row.away_team}
         /\ \A team \in DOMAIN model.ratings \
                          {call'.game_row.home_team, call'.game_row.away_team} :
              model'.ratings[team] = model.ratings[team]]_vars

\* Two updates have been applied, the last to a game in which a third team
\* that has a rating did not play, and both players' ratings moved.
C18_Witness ==
    /\ call.op = "update"
    /\ Len(model.rating_history) = 2
    /\ \E team \in DOMAIN model.ratings :
          team \notin {call.game_row.home_team, call.game_row.away_team}
    /\ model.rating_history[2].home_elo_after # model.rating_history[2].home_elo_before
    /\ model.rating_history[2].away_elo_after # model.rating_history[2].away_elo_before

\* C19: called with an edge per bet (expected value per bet over the
\* average bet size) of 0 or less, calculate_risk_of_ruin returns, and the
\* risk of ruin it reports is 1.0.
C19_NoEdgeMeansCertainRuin ==
    (/\ call.op = "calculate_risk_of_ruin"
     /\ call.avg_bet_size # R(0)
     /\ RLe(RDiv(RSub(RMul(call.win_rate, call.avg_win_payoff),
                      RMul(RSub(R(1), call.win_rate), call.avg_loss_payoff)),
                 call.avg_bet_size), R(0))) =>
        /\ raised = ""
        /\ ret # None
        /\ ret[1].risk_of_ruin = R(1)

\* C20: a spread wager placed on a game whose margin is exactly minus the
\* line is settled as a push: its payout is its stake, its profit is 0 and
\* the current bankroll is what it was before the wager was settled.
C20_TieOnTheLineIsPush ==
    (/\ call.op = "_place_bet_for_opportunity"
     /\ call.opp.bet_type \in {"spread_home", "spread_away"}
     /\ call.game.margin = -call.game.spread
     /\ Len(bankroll.bet_history) = Len(previous[1].bet_history) + 1) =>
        /\ bankroll.bet_history[Len(bankroll.bet_history)].payout =
             Some(bankroll.bet_history[Len(bankroll.bet_history)].stake)
        /\ bankroll.bet_history[Len(bankroll.bet_history)].profit = Some(R(0))
        /\ bankroll.current_bankroll = previous[1].current_bankroll

\* The games whose outcome EloModel.update has been invoked with since the
\* ratings were last cleared: update appends one rating_history entry per
\* invocation and nothing else does.
UpdatedWith(M) == {M.rating_history[k].game_id : k \in DOMAIN M.rating_history}

\* C21: with an Elo model, when a stake is computed for an opportunity of
\* the game at position i, update has not yet been invoked with that game's
\* outcome.
C21_UpdateAfterWagers ==
    [][(StakeComputed /\ model.type = "Elo") =>
         games[i].game_id \notin UpdatedWith(model)]_vars

\* The positions in the ledger's history of the wagers not yet settled.
Pending == {k \in DOMAIN bankroll.bet_history : bankroll.bet_history[k].won = None}

\* The stake run computes for a wager of the given probability and price
\* when the current bankroll is the given amount.
SizedFrom(amount, bet) ==
    calculate_stake(bet.model_prob, bet.odds, amount, config.bet_sizing_method,
                    config.kelly_fraction, config.flat_percentage,
                    config.max_bet_percentage, config.min_bet_amount,
                    config.max_bet_amount)

\* C22: while run executes, at most one wager is pending, and none is
\* unless run has just let an exception through; every wager was sized and
\* placed on the bankroll that the wager before it left (the initial
\* bankroll for the first); no wager is pending when run has returned.
C22_SettledBeforeNext ==
    (pc \in {"loop", "predicted", "bets", "complete", "raised"}) =>
        /\ Cardinality(Pending) <= 1
        /\ (pc # "raised" => Pending = {})
        /\ \A k \in DOMAIN bankroll.bet_history :
             /\ bankroll.bet_history[k].bankroll_before =
                  (IF k = 1 THEN bankroll.initial_bankroll
                   ELSE bankroll.bet_history[k - 1].bankroll_after[1])
             /\ SizedFrom(bankroll.bet_history[k].bankroll_before,
                          bankroll.bet_history[k]) = Some(bankroll.bet_history[k].stake)

\* run has returned after three wagers, each placed on a bankroll that the
\* one before it had changed.
C22_Witness ==
    /\ pc = "complete"
    /\ Len(bankroll.bet_history) = 3
    /\ Pending = {}
    /\ bankroll.bet_history[2].bankroll_before # bankroll.bet_history[1].bankroll_before
    /\ bankroll.bet_history[3].bankroll_before # bankroll.bet_history[2].bankroll_before

\* The backtest loop is about to hand an Elo model the outcome of a game
\* whose season differs from that of the game processed before it.
SeasonChangeUpdate ==
    /\ pc = "bets"
    /\ opportunities = <<>>
    /\ model.type = "Elo"
    /\ i > 1
    /\ games[i].season # games[i - 1].season
    /\ HasKey(games[i], "home_won")

\* C23: the update for the first game of a new season in the backtest loop
\* works on ratings that have each been replaced by f * default +
\* (1 - f) * r beforehand.
C23_ReversionBeforeUpdate ==
    [][SeasonChangeUpdate =>
         model'.ratings = EloModel_update(apply_season_reversion(model), games[i]).ratings]_vars

\* C24: when get_adjustment_breakdown is called right after a
\* predict_win_probability call, for the same teams and the same rest,
\* back-to-back and playoff arguments, its elo_difference is the rating
\* difference that prediction used -- also when an earlier prediction was
\* given injuries that the most recent one was not given.
C24_BreakdownMatchesPrediction ==
    [][(/\ call.op = "predict_win_probability"
        /\ call'.op = "get_adjustment_breakdown"
        /\ call'.home_team = call.home_team
        /\ call'.away_team = call.away_team
        /\ call'.kwargs = call.kwargs)
          => ret'[1].elo_difference = call.elo_diff]_vars

\* C25: with several wagers pending at once and each accepted wager settled
\* at most once, in any order, current_bankroll is the initial bankroll plus
\* the profits of the settled wagers: a settle_bet call on a wager that is
\* still pending keeps that identity.
RECURSIVE SettledProfit(_)
SettledProfit(bets) ==
    IF bets = <<>> THEN R(0)
    ELSE IF Head(bets).won = None THEN SettledProfit(Tail(bets))
    ELSE RAdd(Head(bets).profit[1], SettledProfit(Tail(bets)))

BankrollIsInitialPlusProfits(B) ==
    B.current_bankroll = RAdd(B.initial_bankroll, SettledProfit(B.bet_history))

C25_BankrollIsInitialPlusProfits ==
    [][(/\ SettleStep
        /\ bankroll.bet_history[call'.bet].won = None
        /\ BankrollIsInitialPlusProfits(bankroll))
          => BankrollIsInitialPlusProfits(bankroll')]_vars

\* C26: after every opportunity handled by run and when run returns,
\* bets_attempted = bets_placed + bets_rejected and bets_placed is the number
\* of wagers in the ledger's history; the returned results report the same
\* counts.
C26_CountersAddUp ==
    (pc \in {"run", "fit", "loop", "predicted", "bets", "complete"}) =>
        /\ counters.bets_attempted = counters.bets_placed + counters.bets_rejected
        /\ counters.bets_placed = Len(bankroll.bet_history)
        /\ (pc = "complete" =>
              /\ results[1].bets_attempted = results[1].bets_placed + results[1].bets_rejected
              /\ results[1].bets_placed = Len(results[1].bet_history))

C26_Witness ==
    /\ pc = "complete"
    /\ counters.bets_attempted = 4
    /\ counters.bets_placed = 2
    /\ counters.bets_rejected = 2
    /\ Len(bankroll.bet_history) = 2

\* C27: with min_edge > 0 and any of the vig policies,
\* find_ev_opportunities never lists both the home and the away moneyline of
\* the event it is given.
C27_NeverBothSides ==
    (call.op = "find_ev_opportunities" /\ RGt(call.min_edge, R(0))) =>
        ~(Emitted(ret, "moneyline_home") /\ Emitted(ret, "moneyline_away"))

\* C28: when run has returned and is called a second time on the same
\* Backtester with the same event list, the second call returns too, with
\* the same wager history, the same counts and the same final bankroll,
\* whichever model the Backtester holds.  Stated for lists of completed
\* events (every event has its outcome).
C28_SecondRunOnSameInstance ==
    (/\ previous # None
     /\ previous[1].raised = ""
     /\ pc \in {"complete", "raised"}
     /\ \A k \in DOMAIN call.games : HasKey(call.games[k], "home_won")) =>
        /\ raised = ""
        /\ bankroll.bet_history = previous[1].bet_history
        /\ counters = previous[1].counters
        /\ results[1].bankroll = previous[1].results[1].bankroll

\* C29: over one run with an EloModel each processed event's outcome is
\* applied to the ratings exactly once: when run returns, the ratings are
\* those obtained from the model's initial state by one update per event, in
\* order, and the rating history has one entry per event.
RECURSIVE AppliedOnce(_, _)
AppliedOnce(M, rows) ==
    IF rows = <<>> THEN M ELSE AppliedOnce(EloModel_update(M, Head(rows)), Tail(rows))

C29_EachOutcomeAppliedOnce ==
    (pc = "complete" /\ model.type = "Elo") =>
        /\ model.ratings = AppliedOnce(config.model, games).ratings
        /\ Len(model.rating_history) = Len(games)

\* C30: every wager in the history that run builds, and in the history it
\* returns, has bet type moneyline_home or moneyline_away.
C30_OnlyMoneylineWagers ==
    (pc # "none") =>
        /\ \A k \in DOMAIN bankroll.bet_history :
              bankroll.bet_history[k].bet_type \in {"moneyline_home", "moneyline_away"}
        /\ (pc = "complete" =>
              \A k \in DOMAIN results[1].bet_history :
                  results[1].bet_history[k].bet_type \in {"moneyline_home", "moneyline_away"})

\* run has returned a history that holds a wager on a home side and a wager
\* on an away side, on events that carry spread prices.
C30_Witness ==
    /\ pc = "complete"
    /\ \E k, l \in DOMAIN results[1].bet_history :
          /\ results[1].bet_history[k].bet_type = "moneyline_home"
          /\ results[1].bet_history[l].bet_type = "moneyline_away"
    /\ \A k \in DOMAIN games : validate_fanduel_odds(games[k].spread_odds_home)

====
